---- MODULE Spec2Model ----
(***************************************************************************)
(* Model of the durable stream consumption and dispatch pipeline of        *)
(* autoorder-secretmagic: EventSubscriber (src/events/subscriber.py),      *)
(* EventHandler.handle (src/handlers/event_handler.py), the Logger call    *)
(* signatures they use (src/logger/logger.py) and the part of main that    *)
(* cancels the consumer task (src/main.py).  The broker is modelled by its *)
(* per-stream log, the consumer group cursor and the pending entries list. *)
(* RedisClient.connect (src/events/client.py) is modelled with its retry   *)
(* loop and backoff delays, in the specification SpecConnect; SpecClient   *)
(* adds close() and get_redis(), SpecMain the part of main that calls      *)
(* connect() and starts the consumer.  SpecHandle takes one raw record     *)
(* through _parse_event, EventHandler.handle, Client.from_event_data       *)
(* (src/domain/client.py) and ClientRepository.upsert                      *)
(* (src/repository/client_repository.py).  SpecWriter is PostgresWriter    *)
(* (src/logger/postgres_writer.py) with the write tasks Logger._log        *)
(* creates.  SpecGeocode is YandexGeocoder (src/services/geocoder.py) with *)
(* the table dim_address behind AddressRepository                          *)
(* (src/repository/address_repository.py).  SpecProcess is                 *)
(* SalesFeatureProcessor.process (src/features/sales.py) with the table    *)
(* processing_history behind ProcessingRepository                          *)
(* (src/repository/processing_repository.py).                              *)
(***************************************************************************)
EXTENDS Integers, Sequences, FiniteSets, TLC

\* ---------------------------------------------------------------- bounds
MaxRecords == 2
MaxReads == 2
\* longest backlog a stream holds when the service starts
MaxBacklog == 11
\* largest max_retries and initial_delay (seconds) connect() is called with
MaxMaxRetries == 5
MaxInitialDelay == 31
\* most close() and get_redis() calls made on one RedisClient
MaxClientCalls == 3
\* most handle() calls made with one decoded event
MaxApplications == 2
\* most log entries submitted to one PostgresWriter, and its largest
\* batch_size
MaxEntries == 3
MaxBatchSize == 2
\* most entries printed to stderr before the database accepts every flush
MaxStderr == 4
\* most geocode() and geocode_batch() calls made on one YandexGeocoder
MaxGeocodes == 2
\* most process() runs for one client and table, and the latest
\* ingestion_time of a sales row
MaxRuns == 3
MaxIngestion == 3

\* ------------------------------------------------------ program constants
\* RedisConfig.subscribe_streams
Streams == <<"clients-updates", "sales-updates">>
\* xreadgroup(count=10)
BatchCount == 10
\* min(delay * 2, 30.0)
MaxDelay == 30
\* EventHandler._handlers keys
RegisteredTypes == {"clients_updated", "sales_updated"}

StreamSet == {Streams[i] : i \in 1..Len(Streams)}

\* event_type values the producer writes; "absent" is a record without the key
EventTypes == {"clients_updated", "unrecognized_thing", "absent"}
\* what the registered handler does with the record once invoked: the
\* downstream write succeeds ("ok") or fails ("raise")
Fates == {"ok", "raise"}
RecordKinds ==
    {[event_type |-> t, fate |-> f] : t \in EventTypes, f \in Fates}

NoRec == <<"-", 0>>

\* RedisConfig.host and RedisConfig.port, with their defaults
RedisHost == "messenger"
RedisPort == 6379

\* an exception object: its type, the host, port and number of attempts its
\* message names, and the attempt whose error it is chained to (__cause__
\* or __context__), 0 for none
Exc(type, host, port, attempts, cause) ==
    [type |-> type, host |-> host, port |-> port, attempts |-> attempts,
     cause |-> cause]

NoExc == Exc("none", "-", 0, 0, 0)

VARIABLES
    stream,     \* broker: stream name -> sequence of appended records
    groups,     \* broker: streams on which the consumer group exists
    cursor,     \* broker: stream name -> last delivered id of the group
    pel,        \* broker: pending entries list, a set of <<stream, id>>
    stopped,    \* EventSubscriber._stopped
    pc,         \* position of the consume() coroutine
    setupIdx,   \* index into Streams of the group creation loop
    batch,      \* records of the current read not yet handled, current first
    consumeCalls, \* number of consume() invocations so far
    cancelled,  \* main cancelled the consumer task
    stopAt,     \* position of consume() and length of the trace when stop()
                \* was first called
    trace       \* history of what the loop did

\* RedisClient and the frame of its connect() call
VARIABLES
    max_retries,   \* argument of connect()
    initial_delay, \* argument of connect(), in seconds
    attempt,       \* loop variable of connect()
    delay,         \* local variable of connect(), in seconds
    last_error,    \* local variable of connect(): attempt whose error it is
    redis,         \* RedisClient.redis: "none" or "client"
    connPc,        \* position of the connect() coroutine
    connTrace,     \* history of what connect(), close() and get_redis() did
    clientExc      \* exception the last RedisClient call raised, or NoExc

\* one raw record taken through _parse_event and EventHandler.handle
VARIABLES
    raw,    \* message_data: the field map of the record as read
    event,  \* outcome of _parse_event(raw): the envelope or the exception
    calls,  \* one entry for every handle(event) call made so far
    rows,   \* table clients of PostgreSQL: a set of rows
    now     \* what datetime.utcnow() returns

\* PostgresWriter, the tasks Logger._log creates for it, and its outputs
VARIABLES
    batch_size, \* PostgresWriter.batch_size
    buffer,     \* PostgresWriter.buffer
    closed,     \* PostgresWriter._closed
    conn,       \* PostgresWriter._conn is a connection
    flush_task, \* PostgresWriter._flush_task: what the task is doing
    closePc,    \* position of the close() coroutine
    tasks,      \* entries whose write() task was created and has not run
    db,         \* rows inserted into table logs and committed
    stderr,     \* entries printed by _fallback_to_stderr
    submitted,  \* number of entries submitted so far
    atClose,    \* entries that had been submitted when close() was called
    wTrace      \* history of the write() and write_batch() calls

\* YandexGeocoder and the table dim_address of StarRocks
VARIABLES
    dim_address, \* table dim_address: the rows in the order of insertion
    geoCalls     \* one entry for every geocode() and geocode_batch() call

\* SalesFeatureProcessor for one client, its sales table in StarRocks and
\* the table processing_history of PostgreSQL
VARIABLES
    sales,   \* ingestion_time values of the rows of the sales table
    history, \* table processing_history: the rows of this client and table
    runs     \* one entry for every process() run so far

subVars == <<stream, groups, cursor, pel, stopped, pc, setupIdx, batch,
             consumeCalls, cancelled, stopAt, trace>>

connVars == <<max_retries, initial_delay, attempt, delay, last_error, redis,
              connPc, connTrace, clientExc>>

handleVars == <<raw, event, calls, rows, now>>

writerVars == <<batch_size, buffer, closed, conn, flush_task, closePc, tasks,
                db, stderr, submitted, atClose, wTrace>>

geoVars == <<dim_address, geoCalls>>

procVars == <<sales, history, runs>>

\* what an action of the subscriber, of the client, of the handling of one
\* record, and of the log writer, leaves alone
otherThanSub == <<connVars, handleVars, writerVars, geoVars, procVars>>
otherThanConn == <<subVars, handleVars, writerVars, geoVars, procVars>>
otherThanHandle == <<subVars, connVars, writerVars, geoVars, procVars>>
otherThanWriter == <<subVars, connVars, handleVars, geoVars, procVars>>
otherThanGeo == <<subVars, connVars, handleVars, writerVars, procVars>>
otherThanProc == <<subVars, connVars, handleVars, writerVars, geoVars>>

vars == <<stream, groups, cursor, pel, stopped, pc, setupIdx, batch,
          consumeCalls, cancelled, stopAt, trace, max_retries,
          initial_delay, attempt, delay, last_error, redis, connPc,
          connTrace, clientExc, raw, event, calls, rows, now, batch_size,
          buffer, closed, conn, flush_task, closePc, tasks, db, stderr,
          submitted, atClose, wTrace, dim_address, geoCalls, sales,
          history, runs>>

\* positions inside the `while not self._stopped` loop
LoopPcs == {"loop", "reading", "dispatch", "handler", "acking", "backoff"}
\* positions where the coroutine is suspended at an await
AwaitPcs == {"setup", "reading", "handler", "acking", "backoff"}
\* consume() has finished: returned normally or raised
DonePcs == {"returned", "raised"}

Ev(op, rec, arg) == [op |-> op, rec |-> rec, arg |-> arg]

RECURSIVE CountOp(_, _)
CountOp(s, op) ==
    IF s = <<>> THEN 0
    ELSE (IF Head(s).op = op THEN 1 ELSE 0) + CountOp(Tail(s), op)

Recs(s, op) == {s[i].rec : i \in {j \in 1..Len(s) : s[j].op = op}}

RecordAt(r) == stream[r[1]][r[2]]

Min(a, b) == IF a < b THEN a ELSE b

Range(f) == {f[i] : i \in DOMAIN f}

\* ----------------------------------------------------------------- Logger
\* Logger.debug(msg, *fields) and Logger.error(msg, err, *fields) accept
\* positional Field arguments only: a call that passes keyword arguments
\* raises TypeError before anything is logged.
LoggerCallRaises(keywords) == keywords # {}

\* keyword arguments at the call sites of _handle_message and consume
ReceivedKw == {"event_id", "event_type", "client_id"}
AckedKw == {"event_id", "message_id"}
FailedKw == {"message_id", "message_data"}
LoopErrorKw == {}

\* ----------------------------------------------------------- EventHandler
\* EventHandler.handle: a registered type invokes its handler and re-raises
\* what it raises; any other type, the absent one included, only warns.
HandlerInvoked(rec) == rec.event_type \in RegisteredTypes

HandleOutcome(rec) ==
    IF HandlerInvoked(rec) THEN rec.fate ELSE "ok"

\* -------------------------------------------------------- EventSubscriber
StopValue_Toggle(old) == ~old

\* EventSubscriber.stop: self._stopped = True
StopValue(old) == TRUE

LoopCondition_Forever(flag) == TRUE

\* while not self._stopped
LoopCondition(flag) == ~flag

BackoffDelay_Exponential(failures) == 5 * (2 ^ failures)

\* await asyncio.sleep(5) after a loop level error, whatever the number of
\* failures so far
BackoffDelay(failures) == 5

LoopExcept_CancelRetries(exc) == "backoff"

LoopExcept_RedisOnly(exc) ==
    IF exc = "CancelledError" THEN "break"
    ELSE IF exc = "RedisError" THEN "backoff" ELSE "propagate"

\* the except clauses of the read loop: CancelledError breaks out of the
\* loop, every other exception is logged and followed by the backoff sleep
LoopExcept(exc) ==
    IF exc = "CancelledError" THEN "break" ELSE "backoff"

HandleFailure_AckAnyway(r) ==
    [acks |-> {r}, raises |-> LoggerCallRaises(FailedKw)]

\* the except block of _handle_message: it logs with keyword arguments and
\* issues no acknowledgement
HandleFailure(r) ==
    [acks |-> {}, raises |-> LoggerCallRaises(FailedKw)]

\* ------------------------------------------------- values of one record
\* the text of the data field on the wire, described by its JSON syntax
\* ("invalid" is text no JSON grammar rule accepts, "empty" the empty
\* string, "absent" a record without the key), by its size ("deep" nests
\* more brackets than the interpreter's recursion limit, "long" is a number
\* of more than 4300 digits) and, for an object, by its members
Text(syntax, size, fields) ==
    [syntax |-> syntax, size |-> size, fields |-> fields]

NoFields == [k \in {} |-> ""]

\* the members of a client state a producer may send, each of them optional
ClientKeys == {"id", "name", "created_at", "updated_at"}
MemberValues(k) ==
    CASE k = "id" -> {"c1", "C1", "not-a-uuid"}
      [] k = "name" -> {"n"}
      [] k = "created_at" -> {"t1"}
      [] k = "updated_at" -> {"t2"}
Objects ==
    UNION {{f \in [K -> {"c1", "C1", "not-a-uuid", "n", "t1", "t2"}] :
               \A k \in K : f[k] \in MemberValues(k)} :
           K \in SUBSET ClientKeys}

AbsentData == Text("absent", "small", NoFields)

DataTexts ==
    {AbsentData}
    \cup {Text(s, "small", NoFields) :
              s \in {"empty", "invalid", "array", "number", "string", "null"}}
    \cup {Text("invalid", "deep", NoFields), Text("number", "long", NoFields)}
    \cup {Text("object", "small", f) : f \in Objects}

\* a field of the record that is not there
Absent == "<absent>"
\* Python's None
None == "<None>"

\* a decoded JSON value: its Python type, its truth value and, for a dict,
\* its items
PyVal(type, truthy, fields) ==
    [type |-> type, truthy |-> truthy, fields |-> fields]

EmptyDict == PyVal("dict", FALSE, NoFields)

\* json.loads(text): the value, or the exception it raises.  The nesting
\* depth is tested while scanning, before the text is found invalid or
\* valid, and a number is converted when it is scanned.
JsonLoads(t) ==
    IF t.size = "deep" THEN [raises |-> "RecursionError", value |-> EmptyDict]
    ELSE IF t.size = "long" THEN [raises |-> "ValueError", value |-> EmptyDict]
    ELSE IF t.syntax \in {"empty", "invalid"}
    THEN [raises |-> "JSONDecodeError", value |-> EmptyDict]
    ELSE [raises |-> "none",
          value |-> CASE t.syntax = "object" ->
                          PyVal("dict", t.fields # NoFields, t.fields)
                      [] t.syntax = "array" -> PyVal("list", TRUE, NoFields)
                      [] t.syntax = "number" -> PyVal("int", TRUE, NoFields)
                      [] t.syntax = "string" -> PyVal("str", TRUE, NoFields)
                      [] t.syntax = "null" ->
                          PyVal("NoneType", FALSE, NoFields)]

\* message_data.get(key): None when the key is absent
Get(v) == IF v = Absent THEN None ELSE v

\* message_data.get("data", "{}")
GetData(v) == IF v = AbsentData THEN Text("object", "small", NoFields) ELSE v

Envelope(md, data) ==
    [event_id |-> Get(md.event_id), event_type |-> Get(md.event_type),
     client_id |-> Get(md.client_id), timestamp |-> Get(md.timestamp),
     data |-> data]

\* except json.JSONDecodeError:
CatchesDecodeError(x) == x = "JSONDecodeError"

\* EventSubscriber._parse_event(message_data)
ParseEvent(md) ==
    LET r == JsonLoads(GetData(md.data)) IN
    IF r.raises = "none" THEN [raises |-> "none", env |-> Envelope(md, r.value)]
    ELSE IF CatchesDecodeError(r.raises)
    THEN [raises |-> "none", env |-> Envelope(md, EmptyDict)]
    ELSE [raises |-> r.raises, env |-> Envelope(md, EmptyDict)]

NoRaw ==
    [event_id |-> Absent, event_type |-> Absent, client_id |-> Absent,
     timestamp |-> Absent, data |-> AbsentData]

NotParsed == [raises |-> "unparsed", env |-> Envelope(NoRaw, EmptyDict)]

\* PostgresWriter(dsn, batch_size, flush_interval) after connect(): the
\* connection is open and the background flush task sleeps
WriterConnected(bs) ==
    /\ batch_size = bs
    /\ buffer = <<>>
    /\ closed = FALSE
    /\ conn = TRUE
    /\ flush_task = "sleeping"
    /\ closePc = "open"
    /\ tasks = {}
    /\ db = <<>>
    /\ stderr = <<>>
    /\ submitted = 0
    /\ atClose = {}
    /\ wTrace = <<>>

\* the geocoder is not used by the event pipeline: its cache is empty and
\* it is never called
GeocoderIdle ==
    /\ dim_address = <<>>
    /\ geoCalls = <<>>

\* the sales processor is never run by the event pipeline
ProcessorIdle ==
    /\ sales = {}
    /\ history = <<>>
    /\ runs = <<>>

\* no record is handled apart from the read loop
HandleIdle ==
    /\ raw = NoRaw
    /\ event = NotParsed
    /\ calls = <<>>
    /\ rows = {}
    /\ now = 0

\* the log writer is the one main constructs, with batch_size=100
NothingHandled ==
    /\ WriterConnected(100)
    /\ raw = NoRaw
    /\ event = NotParsed
    /\ calls = <<>>
    /\ rows = {}
    /\ now = 0

\* the client after main's connect() call, with the default arguments,
\* succeeded at the first attempt
Connected ==
    /\ max_retries = 10
    /\ initial_delay = 1
    /\ attempt = 1
    /\ delay = 1
    /\ last_error = 0
    /\ redis = "client"
    /\ connPc = "connected"
    /\ connTrace = <<Ev("attempt", NoRec, 1), Ev("connected", NoRec, 0)>>
    /\ clientExc = NoExc

\* EventSubscriber.__init__ and a broker without records or groups
SubscriberInit ==
    /\ groups = {}
    /\ cursor = [s \in StreamSet |-> 0]
    /\ pel = {}
    /\ stopped = FALSE
    /\ pc = "idle"
    /\ setupIdx = 1
    /\ batch = <<>>
    /\ consumeCalls = 0
    /\ cancelled = FALSE
    /\ stopAt = <<"none", 0>>
    /\ trace = <<>>

Init ==
    /\ stream = [s \in StreamSet |-> <<>>]
    /\ SubscriberInit
    /\ ProcessorIdle
    /\ GeocoderIdle
    /\ Connected
    /\ NothingHandled

Produced == Len(stream[Streams[1]]) + Len(stream[Streams[2]])

\* a producer appends a record to a stream.  The loop observes the streams
\* only when a read returns, so an append at any other time looks to it
\* like one made while the next read blocks, where the model takes it.
Produce ==
    /\ Produced < MaxRecords
    /\ pc = "reading"
    /\ \E s \in StreamSet, k \in RecordKinds :
          /\ k.event_type \notin RegisteredTypes => k.fate = "ok"
          /\ stream' = [stream EXCEPT ![s] = Append(@, k)]
    /\ UNCHANGED otherThanSub
    /\ UNCHANGED <<groups, cursor, pel, stopped, pc, setupIdx, batch,
                   consumeCalls, cancelled, stopAt, trace>>

\* consume() is entered: get_redis(), then the group creation loop
ConsumeStart ==
    /\ consumeCalls' = consumeCalls + 1
    /\ pc' = "setup"
    /\ setupIdx' = 1
    /\ trace' = Append(trace, Ev("consume", NoRec, 0))
    /\ UNCHANGED otherThanSub
    /\ UNCHANGED <<stream, groups, cursor, pel, stopped, batch, cancelled,
                   stopAt>>

GroupCreateExcept_BusyFatal(res) ==
    IF res = "group_busy" THEN "propagate"
    ELSE IF res = "group_failed" THEN "warn" ELSE "created"

GroupCreateExcept_FailFatal(res) ==
    IF res = "group_busy" THEN "swallow"
    ELSE IF res = "group_failed" THEN "propagate" ELSE "created"

\* the try/except around xgroup_create: an exception whose text holds
\* BUSYGROUP is swallowed, any other exception is logged as a warning, and
\* in both cases the for loop goes on
GroupCreateExcept(res) ==
    IF res = "group_busy" THEN "swallow"
    ELSE IF res = "group_failed" THEN "warn" ELSE "created"

\* main calls consume(), once
ConsumeCall ==
    /\ pc = "idle"
    /\ ConsumeStart

\* one iteration of the group creation loop: xgroup_create on the next
\* stream creates the group, reports BUSYGROUP when it exists, or fails
\* otherwise
GroupCreate ==
    /\ pc = "setup"
    /\ LET s == Streams[setupIdx] IN
       \E brokerOk \in BOOLEAN :
          LET res == IF ~brokerOk THEN "group_failed"
                     ELSE IF s \in groups THEN "group_busy"
                     ELSE "group_created"
              tr1 == Append(trace, Ev(res, <<s, 0>>, 0))
          IN /\ groups' = IF res = "group_created" THEN groups \cup {s}
                          ELSE groups
             /\ IF GroupCreateExcept(res) = "propagate"
                THEN /\ pc' = "raised"
                     /\ trace' = Append(tr1, Ev("raised",
                                                <<"RedisError", 0>>, 0))
                ELSE /\ pc' = IF setupIdx = Len(Streams) THEN "loop"
                              ELSE "setup"
                     /\ trace' = tr1
    /\ setupIdx' = setupIdx + 1
    /\ UNCHANGED otherThanSub
    /\ UNCHANGED <<stream, cursor, pel, stopped, batch, consumeCalls,
                   cancelled, stopAt>>

\* the loop test and, without any await in between, the xreadgroup call
LoopHead ==
    /\ pc = "loop"
    /\ IF LoopCondition(stopped)
       THEN /\ CountOp(trace, "read") < MaxReads
            /\ pc' = "reading"
            /\ trace' = Append(trace, Ev("read", NoRec, 0))
       ELSE /\ pc' = "returned"
            /\ trace' = Append(trace, Ev("returned", NoRec, 0))
    /\ UNCHANGED otherThanSub
    /\ UNCHANGED <<stream, groups, cursor, pel, stopped, setupIdx, batch,
                   consumeCalls, cancelled, stopAt>>

ReadFrom_Start(s) == 0

\* streams_dict = {stream: ">"}: the read asks for the entries after the
\* last one delivered to the group, never for delivered ones
ReadFrom(s) == cursor[s]

NewEntries_Reversed(s) ==
    IF s \in groups
    THEN [i \in 1..Min(Len(stream[s]) - cursor[s], BatchCount)
             |-> <<s, cursor[s]
                      + Min(Len(stream[s]) - cursor[s], BatchCount) + 1 - i>>]
    ELSE <<>>

\* new entries ('>') of stream s for the group, at most count of them per
\* stream
NewEntries(s) ==
    IF s \in groups
    THEN [i \in 1..Min(Len(stream[s]) - ReadFrom(s), BatchCount)
             |-> <<s, ReadFrom(s) + i>>]
    ELSE <<>>

RECURSIVE ReadBatch(_)
ReadBatch(i) ==
    IF i > Len(Streams) THEN <<>>
    ELSE NewEntries(Streams[i]) \o ReadBatch(i + 1)

\* what the except clauses of the read loop do with an exception raised
\* inside the try block; the rest of the batch is abandoned
LoopRaise(exc, tr, p) ==
    LET o == LoopExcept(exc) IN
    IF o = "break"
    THEN [pc |-> "returned", batch |-> <<>>, pel |-> p,
          trace |-> Append(tr, Ev("returned", NoRec, 0))]
    ELSE IF o = "backoff" /\ ~LoggerCallRaises(LoopErrorKw)
    THEN [pc |-> "backoff", batch |-> <<>>, pel |-> p,
          trace |-> tr \o <<Ev("loop_error", <<exc, 0>>, 0),
                            Ev("sleep", NoRec,
                               BackoffDelay(CountOp(tr, "sleep")))>>]
    ELSE [pc |-> "raised", batch |-> <<>>, pel |-> p,
          trace |-> Append(tr, Ev("raised", <<exc, 0>>, 0))]

\* _handle_message returned: the for loops take the next record, or the
\* while test is next
Continue(tr, p) ==
    [pc |-> IF Len(batch) > 1 THEN "dispatch" ELSE "loop",
     batch |-> Tail(batch), pel |-> p, trace |-> tr]

\* an exception other than CancelledError inside the try of _handle_message
Failed(r, tr, p) ==
    LET hf == HandleFailure(r)
        tr1 == IF r \in hf.acks THEN Append(tr, Ev("ack", r, 0)) ELSE tr
        p1 == p \ hf.acks
    IN IF hf.raises
       THEN LoopRaise("TypeError", tr1, p1)
       ELSE Continue(Append(tr1, Ev("log_error", r, 0)), p1)

\* the blocking read returns the new entries of every stream, possibly
\* none.  One XREADGROUP command names every subscribed stream, and the
\* broker answers it only if the group exists on each of them.
ReadReturn ==
    /\ pc = "reading"
    /\ StreamSet \subseteq groups
    /\ LET b == ReadBatch(1) IN
       /\ cursor' = [s \in StreamSet |-> ReadFrom(s) + Len(NewEntries(s))]
       /\ pel' = pel \cup Range(b)
       /\ batch' = b
       /\ pc' = IF b = <<>> THEN "loop" ELSE "dispatch"
       /\ trace' = Append(trace, Ev("read_ok", NoRec, Len(b)))
    /\ UNCHANGED otherThanSub
    /\ UNCHANGED <<stream, groups, stopped, setupIdx, consumeCalls,
                   cancelled, stopAt>>

\* the blocking read raises: the broker rejects the whole command with
\* NOGROUP when the group is missing on one of its streams, and any read
\* can fail for another reason (the connection).  Both are RedisError and
\* take the same path, so the model labels the failure NOGROUP whenever a
\* group is missing.
ReadFail ==
    /\ pc = "reading"
    /\ LET why == IF StreamSet \subseteq groups THEN "connection"
                  ELSE "NOGROUP"
           n == LoopRaise("RedisError",
                          Append(trace, Ev("read_fail", <<why, 0>>, 0)),
                          pel)
       IN /\ pc' = n.pc
          /\ batch' = n.batch
          /\ trace' = n.trace
    /\ UNCHANGED otherThanSub
    /\ UNCHANGED <<stream, groups, cursor, pel, stopped, setupIdx,
                   consumeCalls, cancelled, stopAt>>

EnterHandleMessage_Spawned(b) == [i \in 1..Len(b) |-> Ev("decode", b[i], 0)]

\* await self._handle_message(...) inside the two for loops: the loop
\* enters _handle_message for the first remaining record only, and takes
\* the next record after that call has returned
EnterHandleMessage(b) == <<Ev("decode", Head(b), 0)>>

\* the steps of _handle_message for the first record of the batch, one per
\* stretch of code between two awaits
HandleStep(ackOk) ==
    LET r == Head(batch)
        rec == RecordAt(r)
    IN CASE pc = "dispatch" ->
            \* _parse_event, logger.debug(...), await handler(event)
            LET tr1 == trace \o EnterHandleMessage(batch) IN
            IF LoggerCallRaises(ReceivedKw)
            THEN Failed(r, tr1, pel)
            ELSE [pc |-> "handler", batch |-> batch, pel |-> pel,
                  trace |-> tr1 \o <<Ev("dispatch", r, 0)>>
                            \o (IF HandlerInvoked(rec)
                                THEN <<Ev("handler", r, 0)>> ELSE <<>>)]
         [] pc = "handler" ->
            \* handler(event) finished; on success await redis.xack(...)
            IF HandleOutcome(rec) = "ok"
            THEN [pc |-> "acking", batch |-> batch, pel |-> pel,
                  trace |-> trace \o <<Ev("dispatch_ok", r, 0),
                                       Ev("ack", r, 0)>>]
            ELSE Failed(r, Append(trace, Ev("dispatch_raise", r, 0)), pel)
         [] pc = "acking" ->
            \* xack finished; on success logger.debug(...)
            IF ackOk
            THEN LET tr1 == Append(trace, Ev("ack_ok", r, 0)) IN
                 IF LoggerCallRaises(AckedKw)
                 THEN Failed(r, tr1, pel \ {r})
                 ELSE Continue(tr1, pel \ {r})
            ELSE Failed(r, Append(trace, Ev("ack_fail", r, 0)), pel)

HandleMessage ==
    /\ pc \in {"dispatch", "handler", "acking"}
    /\ \E ackOk \in BOOLEAN :
          LET n == HandleStep(ackOk) IN
          /\ pc' = n.pc
          /\ batch' = n.batch
          /\ pel' = n.pel
          /\ trace' = n.trace
    /\ UNCHANGED otherThanSub
    /\ UNCHANGED <<stream, groups, cursor, stopped, setupIdx, consumeCalls,
                   cancelled, stopAt>>

\* asyncio.sleep(5) of the backoff returns
BackoffDone ==
    /\ pc = "backoff"
    /\ pc' = "loop"
    /\ UNCHANGED otherThanSub
    /\ UNCHANGED <<stream, groups, cursor, pel, stopped, setupIdx, batch,
                   consumeCalls, cancelled, stopAt, trace>>

\* EventSubscriber.stop(), callable in every phase.  It is a coroutine of
\* the same event loop, so it runs while consume() has not started, is
\* suspended at an await, or has finished.
Stop ==
    /\ pc \in {"idle"} \cup AwaitPcs \cup DonePcs
    /\ stopped' = StopValue(stopped)
    /\ stopAt' = IF stopAt[1] = "none" THEN <<pc, Len(trace)>> ELSE stopAt
    /\ UNCHANGED otherThanSub
    /\ UNCHANGED <<stream, groups, cursor, pel, pc, setupIdx, batch,
                   consumeCalls, cancelled, trace>>

\* main cancels the consumer task after a signal: CancelledError is raised
\* at the await the coroutine is suspended at.  Inside the try of the read
\* loop it is caught and breaks the loop; during group creation and during
\* the backoff sleep nothing catches it.
Cancel ==
    /\ ~cancelled
    /\ pc \in AwaitPcs
    /\ cancelled' = TRUE
    /\ LET tr0 == Append(trace, Ev("cancelled", <<pc, 0>>, 0))
           tr1 == IF pc \in {"handler", "acking"}
                  THEN Append(tr0, Ev("interrupted", Head(batch), 0))
                  ELSE tr0
           n == IF pc \in {"reading", "handler", "acking"}
                THEN LoopRaise("CancelledError", tr1, pel)
                ELSE [pc |-> "raised", batch |-> <<>>, pel |-> pel,
                      trace |-> Append(tr1,
                                   Ev("raised", <<"CancelledError", 0>>, 0))]
       IN /\ pc' = n.pc
          /\ batch' = n.batch
          /\ trace' = n.trace
    /\ UNCHANGED otherThanSub
    /\ UNCHANGED <<stream, groups, cursor, pel, stopped, setupIdx,
                   consumeCalls, stopAt>>

Next ==
    \/ Produce
    \/ ConsumeCall
    \/ GroupCreate
    \/ LoopHead
    \/ ReadReturn
    \/ ReadFail
    \/ HandleMessage
    \/ BackoffDone
    \/ Stop
    \/ Cancel

Spec == Init /\ [][Next]_vars

\* consume() is called once more, on a subscriber whose stop() was called
\* and whose first consume() has ended
ConsumeAgain ==
    /\ pc \in DonePcs
    /\ stopped
    /\ consumeCalls = 1
    /\ ConsumeStart

NextAgain ==
    \/ Produce
    \/ ConsumeCall
    \/ GroupCreate
    \/ LoopHead
    \/ ReadReturn
    \/ ReadFail
    \/ HandleMessage
    \/ BackoffDone
    \/ Stop
    \/ Cancel
    \/ ConsumeAgain

\* the subscriber of Spec, with consume() called again after stop()
SpecAgain == Init /\ [][NextAgain]_vars

\* n records that producers appended before the service started
Backlog(n) == [i \in 1..n |-> [event_type |-> "clients_updated", fate |-> "ok"]]

\* the service starts on streams that already hold records: the groups
\* are created with id="0", so the first read returns them
InitBacklog ==
    /\ \E n1 \in {1, MaxBacklog}, n2 \in {0, MaxBacklog} :
          stream = [s \in StreamSet |->
                       Backlog(IF s = Streams[1] THEN n1 ELSE n2)]
    /\ SubscriberInit
    /\ ProcessorIdle
    /\ GeocoderIdle
    /\ Connected
    /\ NothingHandled

SpecBacklog == InitBacklog /\ [][Next]_vars

\* ------------------------------------------------------------ RedisClient
InRange_Extra(a, mr) == a <= mr + 1

\* for attempt in range(1, max_retries + 1)
InRange(a, mr) == a <= mr

SleepsAfter_Always(a, mr) == TRUE

\* if attempt < max_retries: warn, sleep, double the delay
SleepsAfter(a, mr) == a < mr

\* delay = min(delay * 2, 30.0)
NextDelay(d) == Min(d * 2, MaxDelay)

\* RedisClient.__init__, and connect() about to be called with some
\* arguments
InitConnect ==
    /\ stream = [s \in StreamSet |-> <<>>]
    /\ SubscriberInit
    /\ ProcessorIdle
    /\ GeocoderIdle
    /\ max_retries \in 0..MaxMaxRetries
    /\ initial_delay \in 0..MaxInitialDelay
    /\ attempt = 0
    /\ delay = 0
    /\ last_error = 0
    /\ redis = "none"
    /\ connPc = "new"
    /\ connTrace = <<>>
    /\ clientExc = NoExc
    /\ NothingHandled

\* raise ConnectionError(f"Failed to connect to Redis at {host}:{port}
\* after {max_retries} attempts"): raised after the for loop, outside the
\* except clause and without `from`, so the error of the last attempt, le,
\* is neither its cause nor its context, and its message does not hold it
RaisedConnectionError(mr, le) ==
    Exc("ConnectionError", RedisHost, RedisPort, mr, 0)

\* the for loop of connect() takes attempt a: the client object is built
\* and assigned to self.redis, then pinged; or the range is exhausted, the
\* error is logged and ConnectionError is raised
Iterate(a, tr) ==
    IF InRange(a, max_retries)
    THEN /\ attempt' = a
         /\ redis' = "client"
         /\ connPc' = "pinging"
         /\ connTrace' = Append(tr, Ev("attempt", NoRec, a))
         /\ clientExc' = clientExc
    ELSE /\ attempt' = attempt
         /\ redis' = redis
         /\ connPc' = "failed"
         /\ connTrace' = Append(tr, Ev("ConnectionError", NoRec, last_error'))
         /\ clientExc' = RaisedConnectionError(max_retries, last_error')

\* connect() is called: delay = initial_delay, last_error = None
ConnectCall ==
    /\ connPc = "new"
    /\ delay' = initial_delay
    /\ last_error' = 0
    /\ Iterate(1, connTrace)
    /\ UNCHANGED <<max_retries, initial_delay>>
    /\ UNCHANGED otherThanConn

\* await self.redis.ping() returns, and connect() with it, or raises
Ping ==
    /\ connPc = "pinging"
    /\ \E ok \in BOOLEAN :
          IF ok
          THEN /\ connPc' = "connected"
               /\ connTrace' = Append(connTrace, Ev("connected", NoRec, 0))
               /\ UNCHANGED <<attempt, last_error, redis, clientExc>>
          ELSE /\ last_error' = attempt
               /\ IF SleepsAfter(attempt, max_retries)
                  THEN /\ connPc' = "sleeping"
                       /\ connTrace' = connTrace
                             \o <<Ev("failed", NoRec, attempt),
                                  Ev("sleep", NoRec, delay)>>
                       /\ UNCHANGED <<attempt, redis, clientExc>>
                  ELSE Iterate(attempt + 1,
                               Append(connTrace,
                                      Ev("failed", NoRec, attempt)))
    /\ UNCHANGED <<max_retries, initial_delay, delay>>
    /\ UNCHANGED otherThanConn

\* await asyncio.sleep(delay) returns: the delay is doubled and the loop
\* takes the next attempt
SleepDone ==
    /\ connPc = "sleeping"
    /\ delay' = NextDelay(delay)
    /\ UNCHANGED <<max_retries, initial_delay, last_error>>
    /\ Iterate(attempt + 1, connTrace)
    /\ UNCHANGED otherThanConn

NextConnect ==
    \/ ConnectCall
    \/ Ping
    \/ SleepDone

SpecConnect == InitConnect /\ [][NextConnect]_vars

\* positions at which no connect() call is in progress, so that the owner
\* of the client can call close() or get_redis()
CallPcs == {"new", "connected", "failed"}

ClientCalls == CountOp(connTrace, "close") + CountOp(connTrace, "get_redis")

HoldsClient_Always(r) == TRUE

\* if self.redis:
HoldsClient(r) == r # "none"

\* RedisClient.close(): aclose() on the client object the field holds, which
\* closes its connection pool whether or not a connection was ever made,
\* then the field is cleared
Close ==
    /\ connPc \in CallPcs
    /\ ClientCalls < MaxClientCalls
    /\ IF HoldsClient(redis)
       THEN IF redis = "none"
            THEN \* None has no attribute aclose
                 /\ clientExc' = Exc("AttributeError", "-", 0, 0, 0)
                 /\ redis' = redis
            ELSE /\ clientExc' = NoExc
                 /\ redis' = "none"
       ELSE /\ clientExc' = NoExc
            /\ redis' = redis
    /\ connTrace' = Append(connTrace, Ev("close", <<connPc, 0>>, 0))
    /\ UNCHANGED <<max_retries, initial_delay, attempt, delay, last_error,
                   connPc>>
    /\ UNCHANGED otherThanConn

\* RedisClient.get_redis(): the field, or RuntimeError when it is None.
\* The event records the position of connect() and whether a client was
\* returned.
GetRedis ==
    /\ connPc \in CallPcs
    /\ ClientCalls < MaxClientCalls
    /\ IF redis = "none"
       THEN /\ clientExc' = Exc("RuntimeError", "-", 0, 0, 0)
            /\ connTrace' = Append(connTrace, Ev("get_redis", <<connPc, 0>>, 0))
       ELSE /\ clientExc' = NoExc
            /\ connTrace' = Append(connTrace, Ev("get_redis", <<connPc, 0>>, 1))
    /\ UNCHANGED <<max_retries, initial_delay, attempt, delay, last_error,
                   redis, connPc>>
    /\ UNCHANGED otherThanConn

NextClient ==
    \/ ConnectCall
    \/ Ping
    \/ SleepDone
    \/ Close
    \/ GetRedis

\* a RedisClient whose owner calls connect() once and close() and
\* get_redis() at any time outside it
SpecClient == InitConnect /\ [][NextClient]_vars

\* ----------------------------------------------------------- EventHandler
\* uuid.UUID(text): the canonical lower-case form of the id, or ValueError
UUIDOf(text) ==
    CASE text = "c1" -> "c1"
      [] text = "C1" -> "c1"
      [] OTHER -> "ValueError"

\* Client._parse_timestamp(data.get(k)): the time, or None (0) for a
\* missing or unparsable value
ParseTimestamp(f, k) ==
    IF k \notin DOMAIN f THEN 0
    ELSE CASE f[k] = "t1" -> 1
           [] f[k] = "t2" -> 2
           [] OTHER -> 0

\* value or datetime.utcnow()
OrNow(v, t) == IF v = 0 THEN t ELSE v

Row(id, name, created_at, updated_at, synced_at) ==
    [id |-> id, name |-> name, created_at |-> created_at,
     updated_at |-> updated_at, synced_at |-> synced_at]

NoClient == Row("-", "", 0, 0, 0)

\* Client.from_event_data(data) at time t
FromEventData(data, t) ==
    IF data.type # "dict"
    THEN [raises |-> "AttributeError", client |-> NoClient]
    ELSE IF "id" \notin DOMAIN data.fields
    THEN [raises |-> "KeyError", client |-> NoClient]
    ELSE IF UUIDOf(data.fields["id"]) = "ValueError"
    THEN [raises |-> "ValueError", client |-> NoClient]
    ELSE [raises |-> "none",
          client |-> Row(UUIDOf(data.fields["id"]),
                         IF "name" \in DOMAIN data.fields
                         THEN data.fields["name"] ELSE "",
                         OrNow(ParseTimestamp(data.fields, "created_at"), t),
                         OrNow(ParseTimestamp(data.fields, "updated_at"), t),
                         t)]

ConflictKeeps_IdOnly == {"id"}

\* ON CONFLICT (id) DO UPDATE SET: every column is taken from the new row
\* except id and created_at
ConflictKeeps == {"id", "created_at"}

\* INSERT ... ON CONFLICT (id) DO UPDATE, committed
Upsert(tbl, c) ==
    IF \E r \in tbl : r.id = c.id
    THEN {IF r.id = c.id
          THEN [k \in DOMAIN r |-> IF k \in ConflictKeeps THEN r[k] ELSE c[k]]
          ELSE r : r \in tbl}
    ELSE tbl \cup {c}

\* EventHandler._handle_clients_updated(event) at time t; dbOk tells
\* whether the statement of ClientRepository.upsert succeeds
HandleClientsUpdated(env, dbOk, tbl, t) ==
    IF ~env.data.truthy
    THEN [raises |-> "none", rows |-> tbl, upserts |-> 0]
    ELSE LET c == FromEventData(env.data, t) IN
         IF c.raises # "none"
         THEN [raises |-> c.raises, rows |-> tbl, upserts |-> 0]
         ELSE IF dbOk
         THEN [raises |-> "none", rows |-> Upsert(tbl, c.client),
               upserts |-> 1]
         ELSE [raises |-> "DatabaseError", rows |-> tbl, upserts |-> 1]

\* EventHandler._handle_sales_updated(event); dbOk tells whether the query
\* of ClientRepository.get_by_id succeeds
HandleSalesUpdated(env, dbOk, tbl) ==
    IF env.client_id = None
    THEN [raises |-> "none", rows |-> tbl, upserts |-> 0]
    ELSE IF env.data.type # "dict"
    THEN [raises |-> "AttributeError", rows |-> tbl, upserts |-> 0]
    ELSE IF dbOk
    THEN [raises |-> "none", rows |-> tbl, upserts |-> 0]
    ELSE [raises |-> "DatabaseError", rows |-> tbl, upserts |-> 0]

HandlerFor_Swapped(et) ==
    IF et = "clients_updated" THEN "_handle_sales_updated"
    ELSE IF et = "sales_updated" THEN "_handle_clients_updated"
    ELSE "none"

\* self._handlers.get(event_type or "")
HandlerFor(et) ==
    IF et = "clients_updated" THEN "_handle_clients_updated"
    ELSE IF et = "sales_updated" THEN "_handle_sales_updated"
    ELSE "none"

\* except Exception as e: self.logger.error(...); raise
HandleExcept(x) == x

\* EventHandler.handle(event) at time t: what it invoked, what the handler
\* and handle itself raised, and the table afterwards
HandleEvent(env, dbOk, tbl, t) ==
    LET h == HandlerFor(env.event_type) IN
    IF h = "none"
    THEN [event_type |-> env.event_type, invoked |-> <<>>,
          handler_raised |-> "none", raised |-> "none", upserts |-> 0,
          rows |-> tbl, at |-> t]
    ELSE LET o == IF h = "_handle_clients_updated"
                  THEN HandleClientsUpdated(env, dbOk, tbl, t)
                  ELSE HandleSalesUpdated(env, dbOk, tbl)
         IN [event_type |-> env.event_type, invoked |-> <<h>>,
             handler_raised |-> o.raises, raised |-> HandleExcept(o.raises),
             upserts |-> o.upserts, rows |-> o.rows, at |-> t]

\* a row an earlier synchronisation left in the table
OldRow == Row("c1", "old", 3, 4, 5)

\* a record as xreadgroup returns it with decode_responses=True, and the
\* table clients before it is handled
InitHandle ==
    /\ stream = [s \in StreamSet |-> <<>>]
    /\ SubscriberInit
    /\ ProcessorIdle
    /\ GeocoderIdle
    /\ Connected
    /\ raw \in [event_id : {Absent, "e1"},
                event_type : {Absent, "unrecognized_thing"}
                             \cup RegisteredTypes,
                client_id : {Absent, "c1"},
                timestamp : {"t0"},
                data : DataTexts]
    /\ event = NotParsed
    /\ calls = <<>>
    /\ rows \in {{}, {OldRow}}
    /\ now = 10
    /\ WriterConnected(100)

\* what leaves the except block of _handle_message when exception x was
\* raised inside its try block: the block logs with keyword arguments
ExceptBlock(x) == IF LoggerCallRaises(FailedKw) THEN "TypeError" ELSE "none"

\* EventSubscriber._handle_message for the record with fields md, as a
\* whole: what it raises into the read loop, how many xack calls it makes,
\* how many upserts, and whether the handler was reached.  ackOk tells
\* whether xack succeeds, dbOk whether the database statement does.
HandleMessageOf(md, dbOk, ackOk, tbl, t) ==
    LET p == ParseEvent(md)
        h == HandleEvent(p.env, dbOk, tbl, t)
        out(x, handled, acks, ups) ==
            [raised |-> x, handled |-> handled, acks |-> acks,
             upserts |-> ups]
    IN  IF p.raises # "none" THEN out(ExceptBlock(p.raises), FALSE, 0, 0)
        ELSE IF LoggerCallRaises(ReceivedKw)
        THEN out(ExceptBlock("TypeError"), FALSE, 0, 0)
        ELSE IF h.raised # "none"
        THEN out(ExceptBlock(h.raised), TRUE, 0, h.upserts)
        ELSE IF ~ackOk
        THEN out(ExceptBlock("RedisError"), TRUE, 1, h.upserts)
        ELSE IF LoggerCallRaises(AckedKw)
        THEN out(ExceptBlock("TypeError"), TRUE, 1, h.upserts)
        ELSE out("none", TRUE, 1, h.upserts)

\* event = self._parse_event(message_data)
Decode ==
    /\ event.raises = "unparsed"
    /\ event' = ParseEvent(raw)
    /\ UNCHANGED <<raw, calls, rows, now>>
    /\ UNCHANGED otherThanHandle

\* await handler.handle(event), and time passes
Handle ==
    /\ event.raises = "none"
    /\ Len(calls) < MaxApplications
    /\ \E dbOk \in BOOLEAN :
          LET c == HandleEvent(event.env, dbOk, rows, now) IN
          /\ calls' = Append(calls, c)
          /\ rows' = c.rows
    /\ now' = now + 1
    /\ UNCHANGED <<raw, event>>
    /\ UNCHANGED otherThanHandle

NextHandle ==
    \/ Decode
    \/ Handle

\* one record decoded and its event handled, possibly more than once
SpecHandle == InitHandle /\ [][NextHandle]_vars

\* --------------------------------------------------------- PostgresWriter
AfterFailure_Cleared(buf) == <<>>

\* the except block of _flush_locked prints, rolls back and calls
\* _fallback_to_stderr; it does not touch the buffer
AfterFailure(buf) == buf

\* PostgresWriter._flush_locked() on buffer buf; dbOk tells whether the
\* INSERT and its commit succeed.  A failed flush prints the entries to
\* stderr and leaves them in the buffer.
FlushLocked(buf, dbOk) ==
    IF buf = <<>> \/ ~conn
    THEN [buffer |-> buf, db |-> db, stderr |-> stderr]
    ELSE IF dbOk
    THEN [buffer |-> <<>>, db |-> db \o buf, stderr |-> stderr]
    ELSE [buffer |-> AfterFailure(buf), db |-> db, stderr |-> stderr \o buf]

\* outcomes of the INSERT of a flush
DbOutcomes == IF Len(stderr) < MaxStderr THEN BOOLEAN ELSE {TRUE}

ReturnsEarly_Never(c) == FALSE

\* if self._closed: return
ReturnsEarly(c) == c

\* write(entry) and write_batch(entries) with entries es: append under the
\* lock and flush when the buffer has reached batch_size
WriteBody(es, dbOk) ==
    IF ReturnsEarly(closed)
    THEN [buffer |-> buffer, db |-> db, stderr |-> stderr]
    ELSE IF Len(buffer \o es) >= batch_size
    THEN FlushLocked(buffer \o es, dbOk)
    ELSE [buffer |-> buffer \o es, db |-> db, stderr |-> stderr]

Outputs(o) ==
    /\ buffer' = o.buffer
    /\ db' = o.db
    /\ stderr' = o.stderr

WasClosed == IF closed THEN 1 ELSE 0

\* a coroutine awaits writer.write(entry) with a new entry
Write ==
    /\ submitted < MaxEntries
    /\ \E dbOk \in DbOutcomes : Outputs(WriteBody(<<submitted + 1>>, dbOk))
    /\ submitted' = submitted + 1
    /\ wTrace' = Append(wTrace, Ev("write", <<"entry", submitted + 1>>,
                                   WasClosed))
    /\ UNCHANGED <<batch_size, closed, conn, flush_task, closePc, tasks,
                   atClose>>
    /\ UNCHANGED otherThanWriter

\* a coroutine awaits writer.write_batch(entries) with new entries
WriteBatch ==
    /\ \E k \in 1..2 :
          /\ submitted + k <= MaxEntries
          /\ \E dbOk \in DbOutcomes :
                Outputs(WriteBody([i \in 1..k |-> submitted + i], dbOk))
          /\ submitted' = submitted + k
    /\ wTrace' = Append(wTrace, Ev("write_batch",
                                   <<"entry", submitted + 1>>, WasClosed))
    /\ UNCHANGED <<batch_size, closed, conn, flush_task, closePc, tasks,
                   atClose>>
    /\ UNCHANGED otherThanWriter

\* Logger._log with a running loop: loop.create_task(writer.write(entry))
LogCall ==
    /\ submitted < MaxEntries
    /\ tasks' = tasks \cup {submitted + 1}
    /\ submitted' = submitted + 1
    /\ UNCHANGED <<batch_size, buffer, closed, conn, flush_task, closePc,
                   db, stderr, atClose, wTrace>>
    /\ UNCHANGED otherThanWriter

\* the event loop runs a task Logger._log created: write(entry)
TaskRun ==
    /\ \E n \in tasks :
          /\ \E dbOk \in DbOutcomes : Outputs(WriteBody(<<n>>, dbOk))
          /\ tasks' = tasks \ {n}
          /\ wTrace' = Append(wTrace, Ev("write", <<"entry", n>>,
                                         WasClosed))
    /\ UNCHANGED <<batch_size, closed, conn, flush_task, closePc, submitted,
                   atClose>>
    /\ UNCHANGED otherThanWriter

\* _background_flush: asyncio.sleep(flush_interval) returns, then flush()
TimerFlush ==
    /\ flush_task = "sleeping"
    /\ ~closed
    /\ \E dbOk \in DbOutcomes : Outputs(FlushLocked(buffer, dbOk))
    /\ UNCHANGED <<batch_size, closed, conn, flush_task, closePc, tasks,
                   submitted, atClose, wTrace>>
    /\ UNCHANGED otherThanWriter

\* close() up to its first await: _closed = True, the flush task is
\* cancelled and awaited
CloseBegin ==
    /\ closePc = "open"
    /\ closed' = TRUE
    /\ flush_task' = "cancelled"
    /\ closePc' = "closing"
    /\ atClose' = 1..submitted
    /\ UNCHANGED <<batch_size, buffer, conn, tasks, db, stderr, submitted,
                   wTrace>>
    /\ UNCHANGED otherThanWriter

\* the flush task has ended; close() goes on: the final flush(), then the
\* connection is closed and the field cleared.  The event loop runs what
\* is ready in the order it became ready, so the tasks created before
\* close() was called have run by now.
CloseFinish ==
    /\ closePc = "closing"
    /\ tasks \cap atClose = {}
    /\ flush_task' = "done"
    /\ \E dbOk \in DbOutcomes : Outputs(FlushLocked(buffer, dbOk))
    /\ conn' = FALSE
    /\ closePc' = "closed"
    /\ UNCHANGED <<batch_size, closed, tasks, submitted, atClose, wTrace>>
    /\ UNCHANGED otherThanWriter

\* a connected PostgresWriter with some batch_size
InitWriter ==
    /\ stream = [s \in StreamSet |-> <<>>]
    /\ SubscriberInit
    /\ ProcessorIdle
    /\ GeocoderIdle
    /\ Connected
    /\ HandleIdle
    /\ \E bs \in 1..MaxBatchSize : WriterConnected(bs)

NextWriter ==
    \/ Write
    \/ WriteBatch
    \/ LogCall
    \/ TaskRun
    \/ TimerFlush
    \/ CloseBegin
    \/ CloseFinish

SpecWriter == InitWriter /\ [][NextWriter]_vars

\* ------------------------------------------------------------------- main
\* main from the Redis connect on: connect() with its default arguments is
\* about to be called on a new RedisClient, the subscriber is constructed
InitMain ==
    /\ stream = [s \in StreamSet |-> <<>>]
    /\ SubscriberInit
    /\ ProcessorIdle
    /\ GeocoderIdle
    /\ max_retries = 10
    /\ initial_delay = 1
    /\ attempt = 0
    /\ delay = 0
    /\ last_error = 0
    /\ redis = "none"
    /\ connPc = "new"
    /\ connTrace = <<>>
    /\ clientExc = NoExc
    /\ NothingHandled

StartsConsumer_Regardless(cpc) == cpc \in {"connected", "failed"}

\* `await redis_client.connect()` stands before the try statement and
\* nothing catches what it raises, so main reaches
\* create_task(subscriber.consume(...)) only when connect() returned
StartsConsumer(cpc) == cpc = "connected"

\* consumer_task = asyncio.create_task(subscriber.consume(handler.handle))
MainConsume ==
    /\ StartsConsumer(connPc)
    /\ ConsumeCall

ConsumerFinished_Whenever(p) == p # "idle"

\* main leaves the consume phase when asyncio.wait returned and the pending
\* tasks were cancelled and awaited: the consumer task finished by itself,
\* or it was cancelled and `await task` has returned or raised
ConsumerFinished(p) == p \in DonePcs

\* the finally clause runs shutdown() once the consumer task has ended:
\* await subscriber.stop()
MainStop ==
    /\ ConsumerFinished(pc)
    /\ ~stopped
    /\ Stop

\* shutdown(): await redis_client.close()
MainClose ==
    /\ ConsumerFinished(pc)
    /\ stopped
    /\ CountOp(connTrace, "close") = 0
    /\ Close

NextMain ==
    \/ ConnectCall
    \/ Ping
    \/ SleepDone
    \/ MainConsume
    \/ Produce
    \/ GroupCreate
    \/ LoopHead
    \/ ReadReturn
    \/ ReadFail
    \/ HandleMessage
    \/ BackoffDone
    \/ Cancel
    \/ MainStop
    \/ MainClose

SpecMain == InitMain /\ [][NextMain]_vars

\* --------------------------------------------------------- YandexGeocoder
\* raw addresses geocode() is called with
Addresses == {"a1", "a2"}

\* what _call_yandex_api(normalized) does for the exact address: it returns
\* None (nothing found, a RequestException, or a reply _parse_response
\* cannot read), it returns the parsed components, or the reply makes
\* _parse_response raise an error it does not catch (TypeError when the
\* JSON document is not an object)
Answer(kind, locality, district) ==
    [kind |-> kind, locality |-> locality, district |-> district]

\* the behaviour of the API during one _geocode_full call: the answer for
\* the exact address and whether the locality and district queries, when
\* they are made, find something
Behaviour(address, locality_found, district_found) ==
    [address |-> address, locality_found |-> locality_found,
     district_found |-> district_found]

ApiBehaviours ==
    {Behaviour(Answer("None", None, None), FALSE, FALSE),
     Behaviour(Answer("raise", None, None), FALSE, FALSE),
     Behaviour(Answer("found", None, None), FALSE, FALSE),
     Behaviour(Answer("found", None, "D"), FALSE, FALSE),
     Behaviour(Answer("found", "L", None), TRUE, FALSE),
     Behaviour(Answer("found", "L", "D"), TRUE, TRUE),
     Behaviour(Answer("found", "L", "D"), FALSE, FALSE)}

DimAddress(a, st, loc, dist, lst, dst) ==
    [raw_address |-> a, address_status |-> st, locality |-> loc,
     district |-> dist, locality_status |-> lst, district_status |-> dst]

NoAddress == DimAddress(None, None, None, None, None, None)

FoundStatus(found) == IF found THEN "success" ELSE "not_found"

\* _geocode_full(raw_address) when no API call raises: the DimAddress
GeocodeFull(a, b) ==
    IF b.address.kind = "None"
    THEN DimAddress(a, "not_found", None, None, None, None)
    ELSE DimAddress(a, "success", b.address.locality, b.address.district,
                    IF b.address.locality # None
                    THEN FoundStatus(b.locality_found) ELSE None,
                    IF b.address.district # None /\ b.address.locality # None
                    THEN FoundStatus(b.district_found) ELSE None)

\* number of _call_yandex_api calls _geocode_full makes
ApiCalls(b) ==
    IF b.address.kind # "found" THEN 1
    ELSE 1 + (IF b.address.locality # None THEN 1 ELSE 0)
           + (IF b.address.district # None /\ b.address.locality # None
              THEN 1 ELSE 0)

\* DimAddress.from_db_row(row): the statuses are parsed back from their
\* strings, an empty locality_status or district_status becomes None
FromDbRow(row) ==
    DimAddress(row.raw_address, row.address_status, row.locality,
               row.district, row.locality_status, row.district_status)

\* SELECT ... FROM dim_address WHERE raw_address = %s: positions of the
\* rows that match
Matching(tbl, a) == {i \in DOMAIN tbl : tbl[i].raw_address = a}

CacheHit_Never(cached) == FALSE

\* if cached is not None: return cached
CacheHit(cached) == cached # NoAddress

\* one geocode() or geocode_batch() call as the caller sees it
GeoCall(op, as, hit, raised, apis, saves, ret) ==
    [op |-> op, addresses |-> as, hit |-> hit, raised |-> raised,
     api_calls |-> apis, saves |-> saves, returned |-> ret]

\* the body of geocode(raw_address) once get_by_raw_address returned
\* cached: the call record and the table afterwards
GeocodeBody(a, cached, b, saveOk) ==
    IF CacheHit(cached)
    THEN [call |-> GeoCall("geocode", <<a>>, TRUE, "None", 0, 0, <<cached>>),
          tbl |-> dim_address]
    ELSE IF b.address.kind = "raise"
    THEN [call |-> GeoCall("geocode", <<a>>, FALSE, "TypeError", 1, 0, <<>>),
          tbl |-> dim_address]
    ELSE IF ~saveOk
    THEN [call |-> GeoCall("geocode", <<a>>, FALSE, "pymysql.Error",
                           ApiCalls(b), 0, <<>>),
          tbl |-> dim_address]
    ELSE [call |-> GeoCall("geocode", <<a>>, FALSE, "None", ApiCalls(b), 1,
                           <<GeocodeFull(a, b)>>),
          tbl |-> Append(dim_address, GeocodeFull(a, b))]

\* YandexGeocoder.geocode(raw_address); fetch_one returns any one of the
\* matching rows
Geocode ==
    /\ Len(geoCalls) < MaxGeocodes
    /\ \E a \in Addresses, readOk \in BOOLEAN, b \in ApiBehaviours,
          saveOk \in BOOLEAN :
          \E cached \in IF Matching(dim_address, a) = {} THEN {NoAddress}
                         ELSE {FromDbRow(dim_address[i]) :
                                  i \in Matching(dim_address, a)} :
             LET out == IF readOk
                        THEN GeocodeBody(a, cached, b, saveOk)
                        ELSE [call |-> GeoCall("geocode", <<a>>, FALSE,
                                               "pymysql.Error", 0, 0, <<>>),
                              tbl |-> dim_address]
             IN  /\ geoCalls' = Append(geoCalls, out.call)
                 /\ dim_address' = out.tbl
    /\ UNCHANGED otherThanGeo

\* YandexGeocoder.geocode_batch(raw_addresses) with a list of two
\* addresses, which may be the same one twice: one lookup for the whole
\* list, _geocode_full for every position that is not in cached_map, one
\* save_batch of the new results
GeocodeBatch ==
    /\ Len(geoCalls) < MaxGeocodes
    /\ \E a1 \in Addresses, a2 \in Addresses,
          b1 \in ApiBehaviours, b2 \in ApiBehaviours :
          LET as == <<a1, a2>>
              bs == <<b1, b2>>
              miss == {i \in 1..2 : Matching(dim_address, as[i]) = {}}
              new == [i \in 1..2 |-> GeocodeFull(as[i], bs[i])]
              toSave == IF miss = {} THEN <<>>
                        ELSE IF miss = {1} THEN <<new[1]>>
                        ELSE IF miss = {2} THEN <<new[2]>>
                        ELSE <<new[1], new[2]>>
              apis == (IF 1 \in miss THEN ApiCalls(b1) ELSE 0)
                      + (IF 2 \in miss THEN ApiCalls(b2) ELSE 0)
          IN  IF \E i \in miss : bs[i].address.kind = "raise"
              THEN /\ geoCalls' = Append(geoCalls,
                          GeoCall("geocode_batch", as, FALSE, "TypeError",
                                  apis, 0, <<>>))
                   /\ dim_address' = dim_address
              ELSE /\ \E r1 \in IF 1 \in miss THEN {new[1]}
                                 ELSE {FromDbRow(dim_address[i]) :
                                          i \in Matching(dim_address, a1)},
                         r2 \in IF 2 \in miss THEN {new[2]}
                                 ELSE {FromDbRow(dim_address[i]) :
                                          i \in Matching(dim_address, a2)} :
                         /\ (a1 = a2 /\ miss = {}) => r1 = r2
                         /\ geoCalls' = Append(geoCalls,
                                GeoCall("geocode_batch", as, miss = {},
                                        "None", apis, Len(toSave),
                                        <<r1, r2>>))
                   /\ dim_address' = dim_address \o toSave
    /\ UNCHANGED otherThanGeo

\* a row an earlier run of the service left in the cache
OldAddress == DimAddress("a2", "not_found", None, None, None, None)

\* YandexGeocoder(api_key, repository) on a cache that is empty or holds
\* one address
InitGeocode ==
    /\ stream = [s \in StreamSet |-> <<>>]
    /\ SubscriberInit
    /\ ProcessorIdle
    /\ Connected
    /\ NothingHandled
    /\ dim_address \in {<<>>, <<OldAddress>>}
    /\ geoCalls = <<>>

NextGeocode ==
    \/ Geocode
    \/ GeocodeBatch

SpecGeocode == InitGeocode /\ [][NextGeocode]_vars

\* -------------------------------------------------- SalesFeatureProcessor
\* get_last_ingestion_time returns None when no run was completed; the
\* model writes None as 0, which is below every ingestion_time
NoWatermark == 0

IngestionTimes == 1..MaxIngestion

\* datetime.utcnow() during the next run: later than every ingestion_time
\* in the table and later than during the runs before
Utcnow == MaxIngestion + 1 + Len(runs)

Max(S) == CHOOSE x \in S : \A y \in S : y <= x

ProcessingRecord(status, lit, n, at) ==
    [status |-> status, last_ingestion_time |-> lit,
     records_processed |-> n, processed_at |-> at]

\* get_last_successful: AND status = 'completed'
CountsForWatermark_Any(status) == TRUE
CountsForWatermark(status) == status = "completed"

\* ProcessingRepository.get_last_successful: positions of the rows the
\* query selects before ORDER BY processed_at DESC LIMIT 1
Successful(h) == {i \in DOMAIN h : CountsForWatermark(h[i].status)}

\* ProcessingRepository.get_last_ingestion_time(client_id, table_name)
GetLastIngestionTime(h) ==
    IF Successful(h) = {} THEN NoWatermark
    ELSE LET i == CHOOSE i \in Successful(h) :
                     \A j \in Successful(h) :
                        h[j].processed_at <= h[i].processed_at
         IN h[i].last_ingestion_time

\* _fetch_new_records: WHERE ingestion_time > last_processed, or every row
\* when last_processed is None
FetchNewRecords(tbl, last) ==
    IF last # NoWatermark THEN {t \in tbl : t > last} ELSE tbl

\* last_processed or datetime.utcnow()
LastOrUtcnow(last, t) == IF last = NoWatermark THEN t ELSE last

\* places at which a run can fail: the query for the watermark, the query
\* for the new rows, the feature calculation, the insert of the
\* 'completed' record
FailPoints == {"none", "watermark", "fetch", "features", "add"}

\* what one run did; insert is the outcome of processing_repo.add for the
\* 'failed' record, "none" when the run did not get to it
Run(before, fetched, outcome, failed_at, insert, wrote, h) ==
    [before |-> before, fetched |-> fetched, outcome |-> outcome,
     failed_at |-> failed_at, insert |-> insert, wrote |-> wrote,
     after |-> GetLastIngestionTime(h), history |-> h]

\* the except block of process(): the 'failed' record is inserted, unless
\* that insert fails too, and the exception is raised again
FailedRun(w, new, fp, failedAddOk) ==
    LET rec == ProcessingRecord("failed", LastOrUtcnow(w, Utcnow), 0, Utcnow)
    IN IF failedAddOk
       THEN Run(w, new, "failed", fp, "ok", <<rec>>, Append(history, rec))
       ELSE Run(w, new, "failed", fp, "raised", <<>>, history)

\* SalesFeatureProcessor.process(client) failing at fp, or nowhere
ProcessRun(fp, failedAddOk) ==
    LET w == GetLastIngestionTime(history)
        new == FetchNewRecords(sales, w)
        done == ProcessingRecord("completed", Max(new), Cardinality(new),
                                 Utcnow)
    IN IF fp = "watermark"
       THEN \* raised before the try statement
            Run(w, {}, "failed", fp, "none", <<>>, history)
       ELSE IF fp = "fetch" THEN FailedRun(w, {}, fp, failedAddOk)
       ELSE IF new = {}
       THEN Run(w, new, "empty", "none", "none", <<>>, history)
       ELSE IF fp \in {"features", "add"}
       THEN FailedRun(w, new, fp, failedAddOk)
       ELSE Run(w, new, "completed", "none", "none", <<done>>,
                Append(history, done))

Process ==
    /\ Len(runs) < MaxRuns
    /\ \E fp \in FailPoints, failedAddOk \in BOOLEAN :
          LET r == ProcessRun(fp, failedAddOk) IN
          /\ history' = r.history
          /\ runs' = Append(runs, [k \in DOMAIN r \ {"history"} |-> r[k]])
    /\ UNCHANGED sales
    /\ UNCHANGED otherThanProc

\* the loader appends a row to the sales table
Ingest ==
    /\ \E t \in IngestionTimes : sales' = sales \cup {t}
    /\ sales' # sales
    /\ UNCHANGED <<history, runs>>
    /\ UNCHANGED otherThanProc

\* a client whose sales were never processed
InitProcess ==
    /\ stream = [s \in StreamSet |-> <<>>]
    /\ SubscriberInit
    /\ GeocoderIdle
    /\ Connected
    /\ NothingHandled
    /\ sales \in {{}, {1}}
    /\ history = <<>>
    /\ runs = <<>>

NextProcess ==
    \/ Process
    \/ Ingest

SpecProcess == InitProcess /\ [][NextProcess]_vars

\* ------------------------------------------------------------ properties
\* positions of the geocode(a) calls that returned
Completed(a) ==
    {i \in DOMAIN geoCalls :
        /\ geoCalls[i].op = "geocode"
        /\ geoCalls[i].addresses = <<a>>
        /\ geoCalls[i].raised = "None"}

\* C31: geocode(a) calls the API only on a cache miss and a miss that
\* returns has saved its result; a geocode(a) call made after a geocode(a)
\* call that returned makes no API call and no save, and what it returns
\* is an entry of the cache for a, which is the result of the earlier call
\* when that one was a miss
C31_SecondCallCached ==
    /\ \A i \in DOMAIN geoCalls :
          geoCalls[i].op = "geocode" =>
             /\ geoCalls[i].api_calls > 0 => ~geoCalls[i].hit
             /\ (~geoCalls[i].hit /\ geoCalls[i].raised = "None") =>
                   /\ geoCalls[i].saves = 1
                   /\ \E k \in DOMAIN dim_address :
                         FromDbRow(dim_address[k]) = geoCalls[i].returned[1]
    /\ \A a \in Addresses : \A i \in Completed(a) :
          \A j \in DOMAIN geoCalls :
             (j > i /\ geoCalls[j].op = "geocode"
                   /\ geoCalls[j].addresses = <<a>>) =>
                /\ geoCalls[j].api_calls = 0
                /\ geoCalls[j].saves = 0
                /\ geoCalls[j].raised = "None" =>
                      /\ geoCalls[j].hit
                      /\ \E k \in Matching(dim_address, a) :
                            geoCalls[j].returned = <<FromDbRow(dim_address[k])>>
                      /\ ~geoCalls[i].hit =>
                            geoCalls[j].returned = geoCalls[i].returned

\* a geocode("a1") call that missed, called the API three times and saved,
\* followed by a geocode("a1") call that returned
C31_Witness ==
    \E i \in Completed("a1"), j \in Completed("a1") :
       /\ i < j
       /\ ~geoCalls[i].hit
       /\ geoCalls[i].api_calls = 3
       /\ geoCalls[j].hit

\* records a read of the loop has returned
Delivered == UNION {{<<s, i>> : i \in 1..cursor[s]} : s \in StreamSet}

Decoded == Recs(trace, "decode")
AckCalls == Recs(trace, "ack")
Reads(tr) == CountOp(tr, "read")

\* the step issues a read: the history only grows, by appending
ReadIssued ==
    \E i \in (Len(trace) + 1)..Len(trace') : trace'[i].op = "read"

RECURSIVE CountRec(_, _, _)
CountRec(s, op, r) ==
    IF s = <<>> THEN 0
    ELSE (IF Head(s).op = op /\ Head(s).rec = r THEN 1 ELSE 0)
         + CountRec(Tail(s), op, r)

\* _handle_message was entered for r and is not suspended on it any more,
\* and it was not ended by the cancellation of the task
Handled(r) ==
    /\ r \in Decoded
    /\ ~(batch # <<>> /\ Head(batch) = r)
    /\ r \notin Recs(trace, "interrupted")

\* the record's dispatch returns normally / raises when it is invoked
Succeeds(r) == HandleOutcome(RecordAt(r)) = "ok"
Raises(r) == HandleOutcome(RecordAt(r)) = "raise"

\* C1: every record whose handler call returns normally is acknowledged,
\* stream and id, once the loop is through with it, and the acknowledgement
\* is issued before the next record is dispatched.
C1_AckOnSuccess ==
    /\ \A r \in Decoded : Handled(r) /\ Succeeds(r) => r \in AckCalls
    /\ \A i, j \in 1..Len(trace) :
          (i < j /\ trace[i].op = "dispatch_ok" /\ trace[j].op = "dispatch")
          => \E k \in (i + 1)..(j - 1) :
                trace[k].op = "ack" /\ trace[k].rec = trace[i].rec

\* C2: a record whose handler raises is never acknowledged by the loop,
\* neither when it fails nor later in the run.
C2_NoAckOnFailure ==
    \A r \in Delivered : Raises(r) => r \notin AckCalls

\* a record whose handler raises went through _handle_message and the run
\* is over
C2_Witness ==
    /\ pc = "returned"
    /\ \E r \in Decoded : Raises(r) /\ Handled(r)

\* C3: a record of an unregistered type, the absent type included, causes
\* no handler invocation, a dispatch that returns normally and exactly one
\* acknowledgement.
C3_UnknownTypeAckedOnce ==
    \A r \in Decoded :
       (Handled(r) /\ ~HandlerInvoked(RecordAt(r)))
       => /\ r \notin Recs(trace, "handler")
          /\ r \in Recs(trace, "dispatch_ok")
          /\ CountRec(trace, "ack", r) = 1

\* C4: when the handler raises for a record, the failure is logged, the
\* later records of the batch are still decoded and dispatched, and the
\* loop level backoff is entered for read failures only.
C4_FailureSparesSiblings ==
    (\E r \in Decoded : Handled(r) /\ Raises(r))
    => /\ \A r \in Decoded :
             Handled(r) /\ Raises(r) => r \in Recs(trace, "log_error")
       /\ \A i \in 1..Len(trace) :
             trace[i].op = "loop_error" => trace[i].rec[1] = "RedisError"
       /\ (batch = <<>> /\ ~cancelled) => Delivered \subseteq Decoded

\* C5: a failed read is logged and followed by a sleep of 5 seconds,
\* whatever the number of failures before it; after the sleep the read is
\* issued again unless stop was requested, and the failure does not end
\* consume().
C5_FlatReadBackoff ==
    \A i \in 1..Len(trace) :
       /\ trace[i].op = "sleep" => trace[i].arg = 5
       /\ trace[i].op = "read_fail"
          => /\ i + 2 <= Len(trace)
             /\ trace[i + 1].op = "loop_error"
             /\ trace[i + 2].op = "sleep"
       /\ (trace[i].op = "sleep" /\ i < Len(trace))
          => \/ trace[i + 1].op = "read"
             \/ trace[i + 1].op = "returned" /\ stopped
             \/ trace[i + 1].op = "cancelled"

\* the read failed twice in a row and was issued again after the first sleep
C5_Witness ==
    \E i \in 1..Len(trace) :
       /\ trace[i].op = "read_fail"
       /\ i + 5 <= Len(trace)
       /\ trace[i + 3].op = "read"
       /\ trace[i + 4].op = "read_fail"

C7_NoReadAfterStop ==
    [][stopped => /\ ~ReadIssued
                  /\ (pc = "loop" /\ pc' # "loop") => pc' = "returned"]_vars

\* stop() was called while a read was in flight, the read returned records
\* and the loop ended
C7_Witness ==
    /\ stopAt[1] = "reading"
    /\ pc = "returned"
    /\ Len(trace) > stopAt[2]
    /\ trace[stopAt[2] + 1].op = "read_ok"
    /\ trace[stopAt[2] + 1].arg > 0

\* stop() was called, or the task was cancelled, while a read or a handler
\* call was in flight
ShutdownInFlight ==
    \/ stopAt[1] \in {"reading", "handler"}
    \/ \E i \in 1..Len(trace) :
          /\ trace[i].op = "cancelled"
          /\ trace[i].rec[1] \in {"reading", "handler"}

\* C8: a shutdown requested while a read or a handler call is in flight
\* interrupts neither: the read is finished, every record the loop was
\* given is processed, those that succeed are acknowledged, and consume()
\* ends without an error.
C8_ShutdownFinishesBatch ==
    (pc \in DonePcs /\ ShutdownInFlight)
    => /\ pc = "returned"
       /\ Reads(trace) = CountOp(trace, "read_ok")
                         + CountOp(trace, "read_fail")
       /\ Recs(trace, "interrupted") = {}
       /\ Delivered \subseteq Decoded
       /\ \A r \in Delivered : Succeeds(r) => r \in AckCalls

AfterStop == SubSeq(trace, stopAt[2] + 1, Len(trace))

\* C9: after stop() during a read that then returns, the loop does no more
\* than finish that read and its batch: it issues no read and sleeps no
\* backoff; after stop() during the backoff sleep it only finishes the sleep.
C9_BoundedShutdown ==
    /\ (stopAt[1] = "reading" /\ AfterStop # <<>>
        /\ AfterStop[1].op = "read_ok")
       => /\ CountOp(AfterStop, "read") = 0
          /\ CountOp(AfterStop, "sleep") = 0
          /\ pc \in DonePcs => Delivered \subseteq Decoded
    /\ stopAt[1] = "backoff"
       => /\ CountOp(AfterStop, "read") = 0
          /\ CountOp(AfterStop, "sleep") = 0

\* the lifecycle of the loop, read off the flag and the position
Phase ==
    IF pc \in DonePcs \/ (stopped /\ pc \in {"idle", "setup", "loop"})
    THEN "Stopped"
    ELSE IF stopped THEN "Stopping"
    ELSE IF pc \in LoopPcs THEN "Running"
    ELSE "Idle"

Rank ==
    CASE Phase = "Idle" -> 0
      [] Phase = "Running" -> 1
      [] Phase = "Stopping" -> 2
      [] Phase = "Stopped" -> 3

GroupOps == {"group_created", "group_busy", "group_failed"}

\* every read comes after a group creation attempt on every stream, made
\* by the same consume() call
ReadsFollowSetup ==
    \A i \in 1..Len(trace) :
       trace[i].op = "read"
       => \A s \in StreamSet :
             \E j \in 1..(i - 1) :
                /\ trace[j].op \in GroupOps
                /\ trace[j].rec[1] = s
                /\ \A k \in j..i : trace[k].op # "consume"

\* a consume() call made after stop() issues no read
LateConsumeReadsNothing ==
    \A i \in 1..Len(trace) :
       (trace[i].op = "consume" /\ stopAt[1] # "none" /\ stopAt[2] < i)
       => \A k \in i..Len(trace) : trace[k].op # "read"

\* C10: the loop only moves forward through Idle, Running, Stopping and
\* Stopped; reads follow the group creation attempts; stop() changes
\* nothing when the flag is set; the flag is never cleared; and a stopped
\* loop, consume() called again included, issues no read.
C10_Lifecycle ==
    [][/\ Rank' >= Rank
       /\ stopped => stopped'
       /\ (stopped /\ Stop) => UNCHANGED vars
       /\ ReadIssued => ReadsFollowSetup' /\ LateConsumeReadsNothing']_vars

\* the loop ran and read, was stopped, and a second consume() call went
\* through group creation and returned
C10_Witness ==
    /\ consumeCalls = 2
    /\ pc = "returned"
    /\ stopped
    /\ Reads(trace) >= 1
    /\ trace[Len(trace) - 1].op \in GroupOps

\* events that end the processing of a record: its acknowledgement, the
\* logging of its failure, or the end of the try block it ran in
EndOps == {"ack_ok", "log_error", "loop_error", "returned", "raised"}

\* positions of the history that hold an event of one of the kinds ops
At(ops) == {i \in 1..Len(trace) : trace[i].op \in ops}

\* C11: records are processed one at a time: _handle_message is entered
\* for a record, and its handler is started, only after the processing of
\* every record entered before has ended; a handler starts right after the
\* decode of its own record; and the one call in progress is that of the
\* first record of the batch.
C11_OneAtATime ==
    /\ \A i \in At({"decode"}), j \in At({"decode", "dispatch"}) :
          (i < j /\ trace[j].rec # trace[i].rec)
          => \E k \in (i + 1)..(j - 1) : trace[k].op \in EndOps
    /\ \A j \in At({"dispatch"}) :
          j > 1 /\ trace[j - 1] = Ev("decode", trace[j].rec, 0)
    /\ pc \in {"dispatch", "handler", "acking"} => batch # <<>>

\* two records went through _handle_message, one after the other, and the
\* loop is in the backoff that follows the second
C11_Witness ==
    /\ Cardinality(Decoded) >= 2
    /\ pc = "backoff"
    /\ CountOp(trace, "loop_error") >= 2

\* C12: a read is in flight only when every record the earlier reads
\* returned has been processed, and the records read and not yet processed
\* are never more than the batch size.
C12_Backpressure ==
    /\ pc = "reading" => Delivered \subseteq Decoded
    /\ Len(batch) <= BatchCount

\* C13: within one stream the loop takes the records in the order of their
\* ids: the records of a batch are in that order, _handle_message is
\* entered in that order, and a handler is started for a later record of
\* the stream only after the handler of an earlier one has finished.
C13_StreamOrder ==
    /\ \A i, j \in 1..Len(batch) :
          (i < j /\ batch[i][1] = batch[j][1]) => batch[i][2] < batch[j][2]
    /\ \A i, j \in At({"decode"}) :
          (i < j /\ trace[i].rec[1] = trace[j].rec[1])
          => trace[i].rec[2] < trace[j].rec[2]
    /\ \A i, j \in At({"dispatch"}) :
          (i < j /\ trace[i].rec[1] = trace[j].rec[1])
          => /\ trace[i].rec[2] < trace[j].rec[2]
             /\ \E k \in (i + 1)..(j - 1) :
                   /\ trace[k].rec = trace[i].rec
                   /\ trace[k].op \in {"dispatch_ok", "dispatch_raise",
                                       "interrupted"}

\* the first and the second record of one stream both went through
\* _handle_message
C13_Witness ==
    \E s \in StreamSet : {<<s, 1>>, <<s, 2>>} \subseteq Decoded

\* no record went through _handle_message twice, no handler ran twice for
\* a record
HandledAtMostOnce ==
    \A i, j \in At({"decode", "handler"}) :
       (i < j /\ trace[i].op = trace[j].op) => trace[i].rec # trace[j].rec

\* C14: a read returns only records that no read returned before, so a
\* record is delivered, and handled, at most once; and a delivered record
\* whose handler raises is in the pending list from then on.
C14_DeliveredOnce ==
    [][/\ (pc = "reading" /\ pc' # "reading")
          => Range(batch') \cap Delivered = {}
       /\ HandledAtMostOnce'
       /\ \A r \in Delivered' : Raises(r)' => r \in pel']_vars

\* a record whose handler raises was delivered by the first read, a second
\* read returned after it, and the record is still pending at the end
C14_Witness ==
    /\ pc = "returned"
    /\ CountOp(trace, "read_ok") >= 2
    /\ \E r \in Decoded : Raises(r) /\ r \in pel

\* C15: group creation can be run again: no run of it raises, a group is
\* created at most once per stream and exists from then on, and the
\* broker's BUSYGROUP answer, given only for a group that was created, is
\* swallowed.
C15_SetupIdempotent ==
    /\ \A s \in StreamSet :
          Cardinality({i \in At({"group_created"}) : trace[i].rec[1] = s})
             = (IF s \in groups THEN 1 ELSE 0)
    /\ \A i \in At({"raised"}) :
          i > 1 => trace[i - 1].op \notin GroupOps
    /\ \A i \in At({"group_busy"}) :
          /\ \E j \in At({"group_created"}) :
                j < i /\ trace[j].rec = trace[i].rec
          /\ i = Len(trace) => pc \in {"setup", "loop"}

\* consume() ran twice, the second group creation found both groups and
\* went through
C15_Witness ==
    /\ consumeCalls = 2
    /\ groups = StreamSet
    /\ CountOp(trace, "group_busy") = Len(Streams)
    /\ pc = "returned"

StreamIndex(s) == CHOOSE k \in 1..Len(Streams) : Streams[k] = s

\* C16: after a group creation failure the creation is attempted on the
\* next stream, and after the last stream the read loop is entered: the
\* while test follows, and a read unless stop() was called.
C16_SetupFailureContinues ==
    \A i \in 1..Len(trace) :
       trace[i].op = "group_failed"
       => IF i = Len(trace)
          THEN pc = (IF StreamIndex(trace[i].rec[1]) < Len(Streams)
                     THEN "setup" ELSE "loop")
          ELSE \/ trace[i + 1].op = "cancelled"
               \/ IF StreamIndex(trace[i].rec[1]) < Len(Streams)
                  THEN /\ trace[i + 1].op \in GroupOps
                       /\ trace[i + 1].rec[1]
                             = Streams[StreamIndex(trace[i].rec[1]) + 1]
                  ELSE \/ trace[i + 1].op = "read"
                       \/ trace[i + 1].op = "returned" /\ stopped

\* the group creation failed on the first stream, succeeded on the second,
\* and the first read was issued
C16_Witness ==
    /\ Len(trace) >= 4
    /\ trace[2] = Ev("group_failed", <<Streams[1], 0>>, 0)
    /\ trace[3] = Ev("group_created", <<Streams[2], 0>>, 0)
    /\ trace[4].op = "read"

\* C17: when the group is missing on a stream, every read that has ended
\* has delivered the records appended to the streams that have the group,
\* and those whose dispatch succeeds are acknowledged.
C17_OtherStreamsConsumed ==
    (/\ StreamSet \ groups # {}
     /\ pc \in {"loop", "backoff"}
     /\ Reads(trace) >= 1)
    => \A s \in groups : \A i \in 1..Len(stream[s]) :
          /\ <<s, i>> \in Delivered
          /\ Succeeds(<<s, i>>) => <<s, i>> \in AckCalls

\* connection attempts made so far, and the delays slept so far
Attempts == CountOp(connTrace, "attempt")
Sleeps == SelectSeq(connTrace, LAMBDA e : e.op = "sleep")

\* C18: connect() makes at most max_retries attempts; a successful attempt
\* is the last thing connect() does, with no sleep and no attempt after
\* it; and when connect() fails, every one of exactly max_retries attempts
\* has failed.
C18_AttemptsBounded ==
    /\ Attempts <= max_retries
    /\ \A i \in 1..Len(connTrace) :
          connTrace[i].op = "connected"
          => /\ i = Len(connTrace)
             /\ connTrace[i - 1].op = "attempt"
             /\ connPc = "connected"
    /\ connPc = "failed"
       => /\ Attempts = max_retries
          /\ CountOp(connTrace, "failed") = max_retries
          /\ connTrace[Len(connTrace)].op = "ConnectionError"

\* connect(4, d) succeeded at its third attempt, after two failed ones
C18_Witness ==
    /\ connPc = "connected"
    /\ max_retries = 4
    /\ Attempts = 3
    /\ Len(Sleeps) = 2

\* connect() sleeps only after a failed attempt that is not the last one,
\* and an attempt follows the sleep
SleepsBetweenAttempts ==
    /\ \A i \in 1..Len(connTrace) :
          connTrace[i].op = "sleep"
          => /\ i > 1
             /\ connTrace[i - 1].op = "failed"
             /\ connTrace[i - 1].arg < max_retries
             /\ i < Len(connTrace) => connTrace[i + 1].op = "attempt"
    /\ connPc = "failed" => Len(Sleeps) = (IF max_retries > 0
                                           THEN max_retries - 1 ELSE 0)

RECURSIVE SumArgs(_)
SumArgs(q) == IF q = <<>> THEN 0 ELSE Head(q).arg + SumArgs(Tail(q))

\* C19, as stated: when every attempt fails, the k-th delay is
\* initial_delay * 2^(k-1), slept between attempts only.
C19_PureDoubling ==
    /\ SleepsBetweenAttempts
    /\ \A k \in 1..Len(Sleeps) :
          Sleeps[k].arg = initial_delay * (2 ^ (k - 1))

\* C19, amended: the first delay is initial_delay and every later one is
\* the smaller of twice the delay before it and 30 seconds, slept between
\* attempts only; connect(3, 1) sleeps 1 then 2 and connect(4, 1) sleeps 7
\* seconds in all before ConnectionError.
C19_BackoffSchedule ==
    /\ SleepsBetweenAttempts
    /\ \A k \in 1..Len(Sleeps) :
          Sleeps[k].arg = (IF k = 1 THEN initial_delay
                           ELSE Min(2 * Sleeps[k - 1].arg, MaxDelay))
    /\ (connPc = "failed" /\ initial_delay = 1 /\ max_retries = 3)
       => /\ Len(Sleeps) = 2
          /\ Sleeps[1].arg = 1
          /\ Sleeps[2].arg = 2
    /\ (connPc = "failed" /\ initial_delay = 1 /\ max_retries = 4)
       => SumArgs(Sleeps) = 7

\* every attempt of connect() failed and the doubled delay reached the cap
C19_Witness ==
    /\ connPc = "failed"
    /\ Len(Sleeps) >= 2
    /\ Sleeps[1].arg < MaxDelay
    /\ Sleeps[Len(Sleeps)].arg = MaxDelay
    /\ Sleeps[Len(Sleeps)].arg < initial_delay * (2 ^ (Len(Sleeps) - 1))

\* C20: no delay slept between connection attempts exceeds 30 seconds.
C20_DelayCapped ==
    \A k \in 1..Len(Sleeps) : Sleeps[k].arg <= MaxDelay

\* ------------------------------------------------------- client life cycle
LastCall == connTrace[Len(connTrace)]

\* C21: when all connection attempts are exhausted, connect fails with a
\* ConnectionError that carries the last underlying error, the target host
\* and the port.
C21_ErrorCarriesCause ==
    connPc = "failed" /\ clientExc.type = "ConnectionError"
    => /\ clientExc.host = RedisHost
       /\ clientExc.port = RedisPort
       /\ clientExc.cause = last_error

\* C22: a failed broker connection at startup is fatal and not retried by
\* the caller: the ConnectionError leaves main after the attempts of the
\* one connect() call, and no group creation, read, dispatch or
\* acknowledgement happens in a run whose connect failed.
C22_ConnectFailureFatal ==
    connPc = "failed"
    => /\ clientExc.type = "ConnectionError"
       /\ Attempts = max_retries
       /\ consumeCalls = 0
       /\ pc = "idle"
       /\ trace = <<>>
       /\ groups = {}
       /\ pel = {}
       /\ ~ENABLED NextMain

\* every attempt of main's connect() call failed
C22_Witness ==
    /\ connPc = "failed"
    /\ last_error = max_retries
    /\ max_retries = 10

IsConnected == connPc = "connected" /\ CountOp(connTrace, "close") = 0

\* C24: get_redis() returns a client only when the client is connected: it
\* raises RuntimeError when connect was never called, when connect failed
\* on every attempt, and after close().
C24_ClientOnlyWhenConnected ==
    connTrace # <<>> /\ LastCall.op = "get_redis"
    => IF IsConnected
       THEN clientExc = NoExc /\ LastCall.arg = 1
       ELSE clientExc.type = "RuntimeError" /\ LastCall.arg = 0
\* ------------------------------------------------------ decode and handle
\* C25: for every malformed data value (non-JSON garbage, the empty
\* string) and for an absent data key, decoding a raw record returns an
\* envelope whose data is the empty mapping, and decoding never raises.
C25_MalformedDecodesEmpty ==
    event.raises # "unparsed"
        /\ raw.data.syntax \in {"invalid", "empty", "absent"}
    => event.raises = "none" /\ event.env.data = EmptyDict

\* C26: decoding is total and always yields a mapping payload: for every
\* raw field map, also one whose data is valid JSON that is not an object,
\* decode returns an envelope without raising and its data is a mapping.
C26_DataAlwaysMapping ==
    event.raises # "unparsed"
    => event.raises = "none" /\ event.env.data.type = "dict"

\* C27: when the event_type of the envelope matches a registered handler,
\* handle invokes exactly that handler exactly once, invokes no other
\* handler, and raises to its caller what the handler raised.
C27_DispatchExact ==
    \A i \in 1..Len(calls) :
        calls[i].event_type \in RegisteredTypes
        => /\ calls[i].invoked =
                 IF calls[i].event_type = "clients_updated"
                 THEN <<"_handle_clients_updated">>
                 ELSE <<"_handle_sales_updated">>
           /\ calls[i].raised = calls[i].handler_raised

\* a handler of a registered type raised and handle raised it again
C27_Witness ==
    /\ Len(calls) >= 1
    /\ calls[1].event_type = "clients_updated"
    /\ calls[1].invoked = <<"_handle_clients_updated">>
    /\ calls[1].handler_raised = "KeyError"
    /\ calls[1].raised = "KeyError"

\* positions of two successive applications of the clients_updated event
\* that both wrote the row
AppliedTwice ==
    {i \in 1..(Len(calls) - 1) :
        /\ calls[i].event_type = "clients_updated"
        /\ calls[i].upserts = 1 /\ calls[i].raised = "none"
        /\ calls[i + 1].upserts = 1 /\ calls[i + 1].raised = "none"}

\* C28 as stated: applying the same clients_updated event twice leaves the
\* stored row in the same state as applying it once.
C28_SameState ==
    \A i \in AppliedTwice : calls[i + 1].rows = calls[i].rows

RowOf(tbl, id) == CHOOSE r \in tbl : r.id = id

\* C28: applying the same clients_updated event twice never creates a
\* second row for the id and leaves every column of the row as one
\* application left it, except synced_at, which is the time of the latest
\* application, and updated_at when the data carries no parsable
\* updated_at, which then is that time too.
C28_IdempotentButTimestamps ==
    \A i \in AppliedTwice :
        LET t1 == calls[i].rows
            t2 == calls[i + 1].rows
            id == UUIDOf(event.env.data.fields["id"])
        IN /\ Cardinality(t2) = Cardinality(t1)
           /\ Cardinality({r \in t2 : r.id = id}) = 1
           /\ t2 \ {RowOf(t2, id)} = t1 \ {RowOf(t1, id)}
           /\ RowOf(t2, id).name = RowOf(t1, id).name
           /\ RowOf(t2, id).created_at = RowOf(t1, id).created_at
           /\ RowOf(t2, id).synced_at = calls[i + 1].at
           /\ RowOf(t2, id).updated_at =
                 IF ParseTimestamp(event.env.data.fields, "updated_at") = 0
                 THEN calls[i + 1].at
                 ELSE RowOf(t1, id).updated_at

\* an event without created_at and updated_at was applied twice to a table
\* that had no row for its id
C28_Witness ==
    /\ AppliedTwice # {}
    /\ Len(calls) = 2
    /\ DOMAIN event.env.data.fields = {"id", "name"}
    /\ calls[1].rows = {Row("c1", "n", 10, 10, 10)}
    /\ calls[2].rows = {Row("c1", "n", 10, 11, 11)}
\* ------------------------------------------------------------- log writer
\* C29: close() flushes the remaining logs: every entry that was submitted
\* to the writer before close() was called, also one submitted through
\* Logger as a scheduled write task, is in the database or in the stderr
\* fallback by the time close() returns.
C29_CloseFlushesAll ==
    closePc = "closed"
    => \A n \in atClose : n \in Range(db) \cup Range(stderr)

\* C30: after close() has been called, write() and write_batch() are
\* no-ops: they leave the buffer unchanged and trigger no flush.
C30_NoOpAfterClose ==
    [][(/\ Len(wTrace') = Len(wTrace) + 1
        /\ wTrace'[Len(wTrace')].arg = 1)
       => UNCHANGED <<buffer, db, stderr, conn, flush_task>>]_vars

\* write() and write_batch() were both called after close() on a writer
\* whose buffer was not empty
C30_Witness ==
    /\ buffer # <<>>
    /\ \E i, j \in 1..Len(wTrace) :
          /\ wTrace[i].op = "write" /\ wTrace[i].arg = 1
          /\ wTrace[j].op = "write_batch" /\ wTrace[j].arg = 1

\* C32: every acknowledgement names a record that a read of this loop had
\* delivered and whose dispatch had returned normally before, and no record
\* is acknowledged twice; so a delivered record whose dispatch did not
\* return normally has no acknowledgement.
C32_AcksNameDispatched ==
    /\ \A i \in At({"ack"}) :
          /\ trace[i].rec \in Delivered
          /\ \E j \in At({"dispatch_ok"}) :
                j < i /\ trace[j].rec = trace[i].rec
    /\ \A i \in At({"ack"}), j \in At({"ack"}) :
          trace[i].rec = trace[j].rec => i = j
    /\ \A r \in Delivered :
          r \notin Recs(trace, "dispatch_ok") => r \notin AckCalls

\* two records were delivered by one read, the loop went through
\* _handle_message for the first, whose dispatch did not return normally,
\* and entered the backoff; no acknowledgement names either of them
C32_Witness ==
    /\ pc = "backoff"
    /\ \E r \in Decoded :
          /\ Handled(r)
          /\ r \notin Recs(trace, "dispatch_ok")
          /\ r \notin AckCalls
    /\ \E r \in Delivered \ Decoded : r \notin AckCalls


\* C33: a record whose handler returned normally leaves _handle_message in
\* one of two ways: its acknowledgement succeeded, or the acknowledgement
\* failed, and then the failure is logged, the acknowledgement was issued
\* once and is not retried, the record stays pending and the loop goes on
\* without the backoff, which only read failures enter.
C33_AckFailureContained ==
    /\ \A r \in Decoded :
          (Handled(r) /\ Succeeds(r)) =>
             \/ r \in Recs(trace, "ack_ok")
             \/ /\ r \in Recs(trace, "ack_fail")
                /\ r \in Recs(trace, "log_error")
                /\ CountRec(trace, "ack", r) = 1
                /\ r \in pel
    /\ \A i \in At({"loop_error"}) : trace[i].rec[1] = "RedisError"


\* data values without a payload: malformed text, the empty string, no
\* data key, and the empty object
NoPayload(t) ==
    \/ t.syntax \in {"invalid", "empty", "absent"}
    \/ t.syntax = "object" /\ t.fields = NoFields

\* C34: for a clients_updated record whose data is malformed, absent or an
\* empty object the decode yields the empty payload, every handle call
\* returns normally without an upsert and leaves the table as it is, and
\* _handle_message acknowledges the record once, whatever the database
\* does, and raises nothing.
C34_EmptyPayloadAcked ==
    (event.raises # "unparsed" /\ raw.event_type = "clients_updated"
        /\ NoPayload(raw.data))
    => /\ event.raises = "none"
       /\ event.env.data = EmptyDict
       /\ \A i \in 1..Len(calls) :
             /\ calls[i].raised = "none"
             /\ calls[i].upserts = 0
             /\ calls[i].rows = rows
       /\ \A dbOk \in BOOLEAN :
             LET o == HandleMessageOf(raw, dbOk, TRUE, rows, now) IN
             /\ o.raised = "none"
             /\ o.handled
             /\ o.upserts = 0
             /\ o.acks = 1


\* positions of the history at which the consumer task was cancelled while
\* it was suspended at one of the awaits ps
CancelledAt(ps) ==
    {i \in At({"cancelled"}) : trace[i].rec[1] \in ps}

\* C35: once the consumer task was cancelled during the blocking read, a
\* backoff sleep or a handler call, consume() has ended, by returning or
\* with the CancelledError main suppresses and no other error; after the
\* cancellation no read is issued, no record is decoded, dispatched or
\* acknowledged, and a record whose handler call was interrupted has no
\* acknowledgement.
C35_CancelEndsQuietly ==
    \A c \in CancelledAt({"reading", "backoff", "handler"}) :
       /\ pc \in DonePcs
       /\ \A k \in (c + 1)..Len(trace) :
             /\ trace[k].op \notin {"read", "decode", "dispatch", "ack"}
             /\ trace[k].op = "raised" => trace[k].rec[1] = "CancelledError"
       /\ \A r \in Recs(trace, "interrupted") : r \notin AckCalls
       /\ \A r \in Delivered \ Recs(trace, "dispatch_ok") : r \notin AckCalls

\* the task was cancelled during its second read, after the first read had
\* delivered a record that is still pending, and consume() has returned
C35_Witness ==
    /\ CancelledAt({"reading"}) # {}
    /\ pc = "returned"
    /\ Reads(trace) = 2
    /\ pel # {}


\* close() was called on the broker connection
BrokerClosed == CountOp(connTrace, "close") > 0

\* C36: the broker connection is closed only when the consumer task has
\* finished; from then on the loop does nothing, so no read and no
\* acknowledgement is issued on the closed connection; and whenever the
\* consumer task has finished, shutdown() has closed the connection or its
\* next step, stop() or close(), can be taken.
C36_CloseAfterConsumer ==
    /\ [](BrokerClosed => (pc \in DonePcs /\ stopped /\ redis = "none"))
    /\ [][BrokerClosed => (trace' = trace /\ pel' = pel /\ pc' = pc)]_vars
    /\ []((pc \in DonePcs /\ ~BrokerClosed) => ENABLED (MainStop \/ MainClose))

\* the consumer task was cancelled during its second read, after a record
\* had gone through the loop, and shutdown() has stopped the subscriber
\* and closed the connection
C36_Witness ==
    /\ BrokerClosed
    /\ cancelled
    /\ pc = "returned"
    /\ Reads(trace) = 2
    /\ Decoded # {}


\* entries write() or write_batch() was called with so far
Accepted == (1..submitted) \ tasks

\* s is t or the beginning of t
IsPrefix(s, t) == Len(s) <= Len(t) /\ SubSeq(t, 1, Len(s)) = s

Occurrences(s, n) == Cardinality({i \in DOMAIN s : s[i] = n})

\* C37: while the writer is open every entry it accepted is either in the
\* buffer or in table logs, once and not in both; a flush that inserts
\* appends the whole buffer to the table and leaves the buffer empty; a
\* flush that fails leaves the table as it was and every entry in the
\* buffer, so that the next flush takes them again.
C37_NoEntryLost ==
    /\ [](~closed =>
            \A n \in Accepted :
               Occurrences(buffer, n) + Occurrences(db, n) = 1)
    /\ [][db' # db =>
            /\ buffer' = <<>>
            /\ IsPrefix(db \o buffer, db')
            /\ stderr' = stderr]_vars
    /\ [][stderr' # stderr =>
            /\ db' = db
            /\ IsPrefix(buffer, buffer')
            /\ buffer' # <<>>
            /\ stderr' = stderr \o buffer']_vars

\* the writer is open, a flush of two entries has failed and a later flush
\* has inserted them together with a third entry
C37_Witness ==
    /\ ~closed
    /\ Len(stderr) >= 2
    /\ Len(db) = 3
    /\ Range(stderr) \subseteq Range(db)
    /\ buffer = <<>>

\* the watermark a run reads is the one the run before left, and the
\* watermark now is the one the last run left
Chained ==
    /\ \A i \in 1..(Len(runs) - 1) : runs[i + 1].before = runs[i].after
    /\ runs # <<>> => GetLastIngestionTime(history) = runs[Len(runs)].after

\* a run that completed had fetched rows and left their latest
\* ingestion_time as the watermark, in one 'completed' record
Advanced(r) ==
    /\ r.fetched # {}
    /\ r.after = Max(r.fetched)
    /\ r.after > r.before
    /\ Len(r.wrote) = 1
    /\ r.wrote[1].status = "completed"

\* a run that found no new rows wrote nothing
Skipped(r) == r.wrote = <<>> /\ r.after = r.before

\* C38 (as written): over the runs of process for one client and table
\* the watermark of get_last_ingestion_time never decreases: a completed
\* run that fetched rows moves it to the latest ingestion_time fetched, a
\* run without new rows writes no record, and every failed run writes one
\* 'failed' record and leaves the watermark as it was.
C38_FailedRunRecorded ==
    /\ Chained
    /\ \A i \in DOMAIN runs :
          LET r == runs[i] IN
          /\ r.after >= r.before
          /\ r.outcome = "completed" => Advanced(r)
          /\ r.outcome = "empty" => Skipped(r)
          /\ r.outcome = "failed" =>
                /\ r.after = r.before
                /\ Len(r.wrote) = 1
                /\ r.wrote[1].status = "failed"

\* C38 (amended): over the runs of process for one client and table the
\* watermark of get_last_ingestion_time never decreases: a completed run
\* that fetched rows moves it to the latest ingestion_time fetched, a run
\* without new rows writes no record, and a failed run leaves the
\* watermark as it was; it writes one 'failed' record when it failed
\* after the watermark was read and the insert of that record went
\* through, and no record otherwise.
C38_WatermarkNeverDecreases ==
    /\ Chained
    /\ \A i \in DOMAIN runs :
          LET r == runs[i] IN
          /\ r.after >= r.before
          /\ r.outcome = "completed" => Advanced(r)
          /\ r.outcome = "empty" => Skipped(r)
          /\ r.outcome = "failed" =>
                /\ r.after = r.before
                /\ r.insert = "ok" =>
                      /\ Len(r.wrote) = 1
                      /\ r.wrote[1].status = "failed"
                      /\ r.failed_at # "watermark"
                /\ r.insert # "ok" => r.wrote = <<>>
                /\ r.failed_at = "watermark" => r.insert = "none"

\* C38 witness: a completed run has moved the watermark, a later run failed
\* and wrote its 'failed' record, and a run found nothing new
C38_Witness ==
    \E i, j, k \in DOMAIN runs :
        /\ i < j
        /\ runs[i].outcome = "completed"
        /\ runs[j].outcome = "failed"
        /\ runs[j].insert = "ok"
        /\ runs[j].before = runs[i].after
        /\ runs[k].outcome = "empty"

====
